---- MODULE Spec2Model ----
\* A model of the WebAudit chatbot pipeline:
\*   Chatbot widget (handleSend)  ->  POST /api/chat (routes/chat.js)
\*   ->  chat() orchestrator (chatService.js)  ->  detectIntent (intentRouter.js)
\*   ->  report store (contextBuilder.js)  ->  callGemini (chatService.js).
\* Strings of the program are TLA+ strings; every operation the code performs on
\* the characters of a string (toLowerCase, trim, includes, the regular
\* expressions) is computed on the string's character sequence, Chars[s].
EXTENDS Integers, Sequences, FiniteSets, TLC

\* ---- Text literals ----
\* intentRouter.js, REPORT_KEYWORDS
REPORT_KEYWORDS ==
  << "my site", "my website", "my page", "my report",
     "score", "scores", "grade", "rating",
     "performance", "seo", "ux", "accessibility", "content quality",
     "lcp", "cls", "fcp", "ttfb", "tbt", "fid",
     "largest contentful paint", "cumulative layout shift", "total blocking time",
     "first contentful paint", "time to first byte",
     "issue", "issues", "fix", "fixes", "recommend", "improve", "optimize",
     "health score", "health grade", "risk", "priority",
     "meta tag", "meta description", "h1", "heading",
     "violation", "violations", "a11y",
     "word count", "readability", "flesch",
     "quick win", "long term", "executive summary",
     "this report", "this site", "this website", "this page",
     "analyzed", "audit", "scanned",
     "why is", "how can i", "what should i",
     "image size", "js size", "css size", "request count",
     "broken", "slow", "missing alt" >>

\* intentRouter.js, CONCEPT_TERMS
CONCEPT_TERMS ==
  << "web vital", "core web vitals", "lighthouse",
     "cdn", "server-side rendering", "ssr", "csr",
     "lazy loading", "code splitting", "tree shaking",
     "minification", "compression", "caching", "cache",
     "responsive design", "mobile first",
     "schema markup", "structured data", "open graph",
     "sitemap", "robots.txt", "canonical",
     "wcag", "aria", "screen reader",
     "dns", "https", "ssl", "tls",
     "framework", "react", "next.js", "vue", "angular",
     "hosting", "deployment", "ci/cd" >>

\* intentRouter.js line 66: the two halves of the ownership heuristic
OwnershipPronouns == << "my", "this", "our", "the" >>
OwnershipSubjects == << "site", "website", "page", "report", "score", "audit", "grade" >>

\* intentRouter.js line 80: the Core Web Vitals acronyms
MetricAcronyms == << "lcp", "cls", "fcp", "ttfb", "tbt", "fid" >>

\* intentRouter.js, CONCEPT_PATTERNS: the fixed prefixes of the seven openers
WhatOpeners == << "what is ", "what are " >>
HowOpeners == << "how does ", "how do ", "how is " >>
PlainOpeners == << "explain ", "define ", "tell me about " >>
WhatDoesOpener == "what does "
MeanWord == "mean"
WhyOpeners == << "why is ", "why are ", "why does ", "why do " >>
WhyExcluded == << "my", "this" >>

\* chatService.js detectSources: the alternatives of the four module patterns
PerformanceWords ==
  << "performance", "lcp", "cls", "fcp", "ttfb", "tbt", "fid", "speed", "slow",
     "fast", "load", "js", "css", "image size", "request", "web vital" >>
SeoWords ==
  << "seo", "search engine", "meta", "title", "description", "h1", "heading",
     "alt text", "sitemap", "canonical", "index", "crawl", "link", "backlink" >>
UxWords ==
  << "ux", "accessibility", "a11y", "violation", "cta", "friction", "mobile",
     "viewport", "touch", "aria", "screen reader", "wcag" >>
ContentWords ==
  << "content", "readability", "word count", "flesch", "keyword", "intent",
     "depth", "quality", "text", "copy" >>

\* chatService.js: the fixed replies of chat() and callGemini()
NoKeyReply ==
  "Chat is unavailable. Please configure GEMINI_API_KEY in the backend .env file. You can get a free API key from https://aistudio.google.com/app/apikey"
NoReportReply ==
  "I'd love to help with your website analysis, but I don't have a report loaded. Please run a website scan first, then ask me questions from the dashboard."
ApologyReply ==
  "I'm sorry, I encountered an error. Please try asking again in a slightly different way."
InvalidKeyReply ==
  "Chat is unavailable. The Gemini API key appears to be invalid. Please check your GEMINI_API_KEY configuration."
\* chatService.js line 155: the substring that marks a credential error
ApiKeyMarker == "API_KEY"

\* routes/chat.js: the error strings of the endpoint
MessageRequired == "Message is required"
ChatFailed == "Chat failed"
\* the message of the TypeError raised by message.trim() on a value with no trim
TrimTypeError == "message.trim is not a function"

\* Chatbot widget (handleSend): the widget's own error texts
WidgetGenericError == "Sorry, I encountered an error. Please try again."
WidgetNoServer == "Cannot connect to the server. Please ensure the backend is running."
\* Chatbot widget: SUGGESTED_QUESTIONS
SUGGESTED_QUESTIONS ==
  << "Why is my performance score low?", "What SEO issues should I fix first?",
     "How can I improve UX?", "Summarize my report" >>

\* contextBuilder.js line 17
ReportNotFound == "Report not found"

\* The credential of the environment (process.env.GEMINI_API_KEY), when set
Credential == "AIzaSyDemoKey"

\* Messages a user types (raw, before any trimming)
TypedMessages ==
  { "hii", "What is LCP?", "Why is my score low?", "fix issues",
    "my images are missing alt text and LCP is slow",
    "  hii ", " Why is my score low?  ", "", "   " }

\* Errors the vendor SDK raises from generateContent / response.text()
ErrInvalidKey ==
  "[GoogleGenerativeAI Error]: [400 Bad Request] API key not valid. Please pass a valid API key. reason: API_KEY_INVALID"
ErrKeyEcho == "API_KEY AIzaSyDemoKey was rejected"
ErrRateLimit ==
  "[GoogleGenerativeAI Error]: [429 Too Many Requests] Resource has been exhausted (e.g. check quota)."
ErrOther == "fetch failed"
\* the HTTP status by which a vendor error reports rate limiting
RateLimitMarker == "429"
\* An error the store raises from findById
ErrStore == "Cast to ObjectId failed for value at path _id"

\* Texts the model returns; the vendor returning no text is the empty string
ModelText == "LCP measures how fast the main content renders."
NoText == ""

\* Texts of the turns of a supplied history, one per position
HistoryTexts ==
  << "t01", "t02", "t03", "t04", "t05", "t06", "t07", "t08", "t09", "t10",
     "t11", "t12", "t13", "t14", "t15", "t16" >>

\* Words a message is put together from: an optional opener, then words separated
\* by single spaces. The words hold ownership pronouns and subjects (in whole, in
\* capitals, inside longer words and next to punctuation), report keywords,
\* metric acronyms, concept terms and the words of the four module patterns.
MessageOpeners == << "", "what is ", "Why is ", "what does " >>
MessageWords ==
  << "my", "The", "site", "score?", "scores", "mysite", "lcp", "cache", "fix", "slow",
     "mean", "hii", "alt text", "ux", "content" >>

\* contextBuilder.js: the recommendation flags and the severities of the reports,
\* as stored and as rendered
ReportTexts ==
  << "needs_optimization", "fix_now", "needs optimization", "fix now",
     "high", "info", "HIGH", "INFO" >>
\* ---- End of text literals ----

\* ---- Character table ----
Chars ==
  ("my site" :> <<"m","y"," ","s","i","t","e">>) @@
  ("my website" :> <<"m","y"," ","w","e","b","s","i","t","e">>) @@
  ("my page" :> <<"m","y"," ","p","a","g","e">>) @@
  ("my report" :> <<"m","y"," ","r","e","p","o","r","t">>) @@
  ("score" :> <<"s","c","o","r","e">>) @@
  ("scores" :> <<"s","c","o","r","e","s">>) @@
  ("grade" :> <<"g","r","a","d","e">>) @@
  ("rating" :> <<"r","a","t","i","n","g">>) @@
  ("performance" :> <<"p","e","r","f","o","r","m","a","n","c","e">>) @@
  ("seo" :> <<"s","e","o">>) @@
  ("ux" :> <<"u","x">>) @@
  ("accessibility" :> <<"a","c","c","e","s","s","i","b","i","l","i","t","y">>) @@
  ("content quality" :> <<"c","o","n","t","e","n","t"," ","q","u","a","l","i","t","y">>) @@
  ("lcp" :> <<"l","c","p">>) @@
  ("cls" :> <<"c","l","s">>) @@
  ("fcp" :> <<"f","c","p">>) @@
  ("ttfb" :> <<"t","t","f","b">>) @@
  ("tbt" :> <<"t","b","t">>) @@
  ("fid" :> <<"f","i","d">>) @@
  ("largest contentful paint" :> <<"l","a","r","g","e","s","t"," ","c","o","n","t","e","n","t","f","u","l"," ","p","a","i","n","t">>) @@
  ("cumulative layout shift" :> <<"c","u","m","u","l","a","t","i","v","e"," ","l","a","y","o","u","t"," ","s","h","i","f","t">>) @@
  ("total blocking time" :> <<"t","o","t","a","l"," ","b","l","o","c","k","i","n","g"," ","t","i","m","e">>) @@
  ("first contentful paint" :> <<"f","i","r","s","t"," ","c","o","n","t","e","n","t","f","u","l"," ","p","a","i","n","t">>) @@
  ("time to first byte" :> <<"t","i","m","e"," ","t","o"," ","f","i","r","s","t"," ","b","y","t","e">>) @@
  ("issue" :> <<"i","s","s","u","e">>) @@
  ("issues" :> <<"i","s","s","u","e","s">>) @@
  ("fix" :> <<"f","i","x">>) @@
  ("fixes" :> <<"f","i","x","e","s">>) @@
  ("recommend" :> <<"r","e","c","o","m","m","e","n","d">>) @@
  ("improve" :> <<"i","m","p","r","o","v","e">>) @@
  ("optimize" :> <<"o","p","t","i","m","i","z","e">>) @@
  ("health score" :> <<"h","e","a","l","t","h"," ","s","c","o","r","e">>) @@
  ("health grade" :> <<"h","e","a","l","t","h"," ","g","r","a","d","e">>) @@
  ("risk" :> <<"r","i","s","k">>) @@
  ("priority" :> <<"p","r","i","o","r","i","t","y">>) @@
  ("meta tag" :> <<"m","e","t","a"," ","t","a","g">>) @@
  ("meta description" :> <<"m","e","t","a"," ","d","e","s","c","r","i","p","t","i","o","n">>) @@
  ("h1" :> <<"h","1">>) @@
  ("heading" :> <<"h","e","a","d","i","n","g">>) @@
  ("violation" :> <<"v","i","o","l","a","t","i","o","n">>) @@
  ("violations" :> <<"v","i","o","l","a","t","i","o","n","s">>) @@
  ("a11y" :> <<"a","1","1","y">>) @@
  ("word count" :> <<"w","o","r","d"," ","c","o","u","n","t">>) @@
  ("readability" :> <<"r","e","a","d","a","b","i","l","i","t","y">>) @@
  ("flesch" :> <<"f","l","e","s","c","h">>) @@
  ("quick win" :> <<"q","u","i","c","k"," ","w","i","n">>) @@
  ("long term" :> <<"l","o","n","g"," ","t","e","r","m">>) @@
  ("executive summary" :> <<"e","x","e","c","u","t","i","v","e"," ","s","u","m","m","a","r","y">>) @@
  ("this report" :> <<"t","h","i","s"," ","r","e","p","o","r","t">>) @@
  ("this site" :> <<"t","h","i","s"," ","s","i","t","e">>) @@
  ("this website" :> <<"t","h","i","s"," ","w","e","b","s","i","t","e">>) @@
  ("this page" :> <<"t","h","i","s"," ","p","a","g","e">>) @@
  ("analyzed" :> <<"a","n","a","l","y","z","e","d">>) @@
  ("audit" :> <<"a","u","d","i","t">>) @@
  ("scanned" :> <<"s","c","a","n","n","e","d">>) @@
  ("why is" :> <<"w","h","y"," ","i","s">>) @@
  ("how can i" :> <<"h","o","w"," ","c","a","n"," ","i">>) @@
  ("what should i" :> <<"w","h","a","t"," ","s","h","o","u","l","d"," ","i">>) @@
  ("image size" :> <<"i","m","a","g","e"," ","s","i","z","e">>) @@
  ("js size" :> <<"j","s"," ","s","i","z","e">>) @@
  ("css size" :> <<"c","s","s"," ","s","i","z","e">>) @@
  ("request count" :> <<"r","e","q","u","e","s","t"," ","c","o","u","n","t">>) @@
  ("broken" :> <<"b","r","o","k","e","n">>) @@
  ("slow" :> <<"s","l","o","w">>) @@
  ("missing alt" :> <<"m","i","s","s","i","n","g"," ","a","l","t">>) @@
  ("web vital" :> <<"w","e","b"," ","v","i","t","a","l">>) @@
  ("core web vitals" :> <<"c","o","r","e"," ","w","e","b"," ","v","i","t","a","l","s">>) @@
  ("lighthouse" :> <<"l","i","g","h","t","h","o","u","s","e">>) @@
  ("cdn" :> <<"c","d","n">>) @@
  ("server-side rendering" :> <<"s","e","r","v","e","r","-","s","i","d","e"," ","r","e","n","d","e","r","i","n","g">>) @@
  ("ssr" :> <<"s","s","r">>) @@
  ("csr" :> <<"c","s","r">>) @@
  ("lazy loading" :> <<"l","a","z","y"," ","l","o","a","d","i","n","g">>) @@
  ("code splitting" :> <<"c","o","d","e"," ","s","p","l","i","t","t","i","n","g">>) @@
  ("tree shaking" :> <<"t","r","e","e"," ","s","h","a","k","i","n","g">>) @@
  ("minification" :> <<"m","i","n","i","f","i","c","a","t","i","o","n">>) @@
  ("compression" :> <<"c","o","m","p","r","e","s","s","i","o","n">>) @@
  ("caching" :> <<"c","a","c","h","i","n","g">>) @@
  ("cache" :> <<"c","a","c","h","e">>) @@
  ("responsive design" :> <<"r","e","s","p","o","n","s","i","v","e"," ","d","e","s","i","g","n">>) @@
  ("mobile first" :> <<"m","o","b","i","l","e"," ","f","i","r","s","t">>) @@
  ("schema markup" :> <<"s","c","h","e","m","a"," ","m","a","r","k","u","p">>) @@
  ("structured data" :> <<"s","t","r","u","c","t","u","r","e","d"," ","d","a","t","a">>) @@
  ("open graph" :> <<"o","p","e","n"," ","g","r","a","p","h">>) @@
  ("sitemap" :> <<"s","i","t","e","m","a","p">>) @@
  ("robots.txt" :> <<"r","o","b","o","t","s",".","t","x","t">>) @@
  ("canonical" :> <<"c","a","n","o","n","i","c","a","l">>) @@
  ("wcag" :> <<"w","c","a","g">>) @@
  ("aria" :> <<"a","r","i","a">>) @@
  ("screen reader" :> <<"s","c","r","e","e","n"," ","r","e","a","d","e","r">>) @@
  ("dns" :> <<"d","n","s">>) @@
  ("https" :> <<"h","t","t","p","s">>) @@
  ("ssl" :> <<"s","s","l">>) @@
  ("tls" :> <<"t","l","s">>) @@
  ("framework" :> <<"f","r","a","m","e","w","o","r","k">>) @@
  ("react" :> <<"r","e","a","c","t">>) @@
  ("next.js" :> <<"n","e","x","t",".","j","s">>) @@
  ("vue" :> <<"v","u","e">>) @@
  ("angular" :> <<"a","n","g","u","l","a","r">>) @@
  ("hosting" :> <<"h","o","s","t","i","n","g">>) @@
  ("deployment" :> <<"d","e","p","l","o","y","m","e","n","t">>) @@
  ("ci/cd" :> <<"c","i","/","c","d">>) @@
  ("my" :> <<"m","y">>) @@
  ("this" :> <<"t","h","i","s">>) @@
  ("our" :> <<"o","u","r">>) @@
  ("the" :> <<"t","h","e">>) @@
  ("site" :> <<"s","i","t","e">>) @@
  ("website" :> <<"w","e","b","s","i","t","e">>) @@
  ("page" :> <<"p","a","g","e">>) @@
  ("report" :> <<"r","e","p","o","r","t">>) @@
  ("what is " :> <<"w","h","a","t"," ","i","s"," ">>) @@
  ("what are " :> <<"w","h","a","t"," ","a","r","e"," ">>) @@
  ("how does " :> <<"h","o","w"," ","d","o","e","s"," ">>) @@
  ("how do " :> <<"h","o","w"," ","d","o"," ">>) @@
  ("how is " :> <<"h","o","w"," ","i","s"," ">>) @@
  ("explain " :> <<"e","x","p","l","a","i","n"," ">>) @@
  ("define " :> <<"d","e","f","i","n","e"," ">>) @@
  ("tell me about " :> <<"t","e","l","l"," ","m","e"," ","a","b","o","u","t"," ">>) @@
  ("what does " :> <<"w","h","a","t"," ","d","o","e","s"," ">>) @@
  ("mean" :> <<"m","e","a","n">>) @@
  ("why is " :> <<"w","h","y"," ","i","s"," ">>) @@
  ("why are " :> <<"w","h","y"," ","a","r","e"," ">>) @@
  ("why does " :> <<"w","h","y"," ","d","o","e","s"," ">>) @@
  ("why do " :> <<"w","h","y"," ","d","o"," ">>) @@
  ("speed" :> <<"s","p","e","e","d">>) @@
  ("fast" :> <<"f","a","s","t">>) @@
  ("load" :> <<"l","o","a","d">>) @@
  ("js" :> <<"j","s">>) @@
  ("css" :> <<"c","s","s">>) @@
  ("request" :> <<"r","e","q","u","e","s","t">>) @@
  ("search engine" :> <<"s","e","a","r","c","h"," ","e","n","g","i","n","e">>) @@
  ("meta" :> <<"m","e","t","a">>) @@
  ("title" :> <<"t","i","t","l","e">>) @@
  ("description" :> <<"d","e","s","c","r","i","p","t","i","o","n">>) @@
  ("alt text" :> <<"a","l","t"," ","t","e","x","t">>) @@
  ("index" :> <<"i","n","d","e","x">>) @@
  ("crawl" :> <<"c","r","a","w","l">>) @@
  ("link" :> <<"l","i","n","k">>) @@
  ("backlink" :> <<"b","a","c","k","l","i","n","k">>) @@
  ("cta" :> <<"c","t","a">>) @@
  ("friction" :> <<"f","r","i","c","t","i","o","n">>) @@
  ("mobile" :> <<"m","o","b","i","l","e">>) @@
  ("viewport" :> <<"v","i","e","w","p","o","r","t">>) @@
  ("touch" :> <<"t","o","u","c","h">>) @@
  ("content" :> <<"c","o","n","t","e","n","t">>) @@
  ("keyword" :> <<"k","e","y","w","o","r","d">>) @@
  ("intent" :> <<"i","n","t","e","n","t">>) @@
  ("depth" :> <<"d","e","p","t","h">>) @@
  ("quality" :> <<"q","u","a","l","i","t","y">>) @@
  ("text" :> <<"t","e","x","t">>) @@
  ("copy" :> <<"c","o","p","y">>) @@
  ("Chat is unavailable. Please configure GEMINI_API_KEY in the backend .env file. You can get a free API key from https://aistudio.google.com/app/apikey" :> <<"C","h","a","t"," ","i","s"," ","u","n","a","v","a","i","l","a","b","l","e","."," ","P","l","e","a","s","e"," ","c","o","n","f","i","g","u","r","e"," ","G","E","M","I","N","I","_","A","P","I","_","K","E","Y"," ","i","n"," ","t","h","e"," ","b","a","c","k","e","n","d"," ",".","e","n","v"," ","f","i","l","e","."," ","Y","o","u"," ","c","a","n"," ","g","e","t"," ","a"," ","f","r","e","e"," ","A","P","I"," ","k","e","y"," ","f","r","o","m"," ","h","t","t","p","s",":","/","/","a","i","s","t","u","d","i","o",".","g","o","o","g","l","e",".","c","o","m","/","a","p","p","/","a","p","i","k","e","y">>) @@
  ("I'd love to help with your website analysis, but I don't have a report loaded. Please run a website scan first, then ask me questions from the dashboard." :> <<"I","'","d"," ","l","o","v","e"," ","t","o"," ","h","e","l","p"," ","w","i","t","h"," ","y","o","u","r"," ","w","e","b","s","i","t","e"," ","a","n","a","l","y","s","i","s",","," ","b","u","t"," ","I"," ","d","o","n","'","t"," ","h","a","v","e"," ","a"," ","r","e","p","o","r","t"," ","l","o","a","d","e","d","."," ","P","l","e","a","s","e"," ","r","u","n"," ","a"," ","w","e","b","s","i","t","e"," ","s","c","a","n"," ","f","i","r","s","t",","," ","t","h","e","n"," ","a","s","k"," ","m","e"," ","q","u","e","s","t","i","o","n","s"," ","f","r","o","m"," ","t","h","e"," ","d","a","s","h","b","o","a","r","d",".">>) @@
  ("I'm sorry, I encountered an error. Please try asking again in a slightly different way." :> <<"I","'","m"," ","s","o","r","r","y",","," ","I"," ","e","n","c","o","u","n","t","e","r","e","d"," ","a","n"," ","e","r","r","o","r","."," ","P","l","e","a","s","e"," ","t","r","y"," ","a","s","k","i","n","g"," ","a","g","a","i","n"," ","i","n"," ","a"," ","s","l","i","g","h","t","l","y"," ","d","i","f","f","e","r","e","n","t"," ","w","a","y",".">>) @@
  ("Chat is unavailable. The Gemini API key appears to be invalid. Please check your GEMINI_API_KEY configuration." :> <<"C","h","a","t"," ","i","s"," ","u","n","a","v","a","i","l","a","b","l","e","."," ","T","h","e"," ","G","e","m","i","n","i"," ","A","P","I"," ","k","e","y"," ","a","p","p","e","a","r","s"," ","t","o"," ","b","e"," ","i","n","v","a","l","i","d","."," ","P","l","e","a","s","e"," ","c","h","e","c","k"," ","y","o","u","r"," ","G","E","M","I","N","I","_","A","P","I","_","K","E","Y"," ","c","o","n","f","i","g","u","r","a","t","i","o","n",".">>) @@
  ("API_KEY" :> <<"A","P","I","_","K","E","Y">>) @@
  ("Message is required" :> <<"M","e","s","s","a","g","e"," ","i","s"," ","r","e","q","u","i","r","e","d">>) @@
  ("Chat failed" :> <<"C","h","a","t"," ","f","a","i","l","e","d">>) @@
  ("message.trim is not a function" :> <<"m","e","s","s","a","g","e",".","t","r","i","m"," ","i","s"," ","n","o","t"," ","a"," ","f","u","n","c","t","i","o","n">>) @@
  ("Sorry, I encountered an error. Please try again." :> <<"S","o","r","r","y",","," ","I"," ","e","n","c","o","u","n","t","e","r","e","d"," ","a","n"," ","e","r","r","o","r","."," ","P","l","e","a","s","e"," ","t","r","y"," ","a","g","a","i","n",".">>) @@
  ("Cannot connect to the server. Please ensure the backend is running." :> <<"C","a","n","n","o","t"," ","c","o","n","n","e","c","t"," ","t","o"," ","t","h","e"," ","s","e","r","v","e","r","."," ","P","l","e","a","s","e"," ","e","n","s","u","r","e"," ","t","h","e"," ","b","a","c","k","e","n","d"," ","i","s"," ","r","u","n","n","i","n","g",".">>) @@
  ("Why is my performance score low?" :> <<"W","h","y"," ","i","s"," ","m","y"," ","p","e","r","f","o","r","m","a","n","c","e"," ","s","c","o","r","e"," ","l","o","w","?">>) @@
  ("What SEO issues should I fix first?" :> <<"W","h","a","t"," ","S","E","O"," ","i","s","s","u","e","s"," ","s","h","o","u","l","d"," ","I"," ","f","i","x"," ","f","i","r","s","t","?">>) @@
  ("How can I improve UX?" :> <<"H","o","w"," ","c","a","n"," ","I"," ","i","m","p","r","o","v","e"," ","U","X","?">>) @@
  ("Summarize my report" :> <<"S","u","m","m","a","r","i","z","e"," ","m","y"," ","r","e","p","o","r","t">>) @@
  ("Report not found" :> <<"R","e","p","o","r","t"," ","n","o","t"," ","f","o","u","n","d">>) @@
  ("AIzaSyDemoKey" :> <<"A","I","z","a","S","y","D","e","m","o","K","e","y">>) @@
  ("hii" :> <<"h","i","i">>) @@
  ("What is LCP?" :> <<"W","h","a","t"," ","i","s"," ","L","C","P","?">>) @@
  ("Why is my score low?" :> <<"W","h","y"," ","i","s"," ","m","y"," ","s","c","o","r","e"," ","l","o","w","?">>) @@
  ("fix issues" :> <<"f","i","x"," ","i","s","s","u","e","s">>) @@
  ("my images are missing alt text and LCP is slow" :> <<"m","y"," ","i","m","a","g","e","s"," ","a","r","e"," ","m","i","s","s","i","n","g"," ","a","l","t"," ","t","e","x","t"," ","a","n","d"," ","L","C","P"," ","i","s"," ","s","l","o","w">>) @@
  ("  hii " :> <<" "," ","h","i","i"," ">>) @@
  (" Why is my score low?  " :> <<" ","W","h","y"," ","i","s"," ","m","y"," ","s","c","o","r","e"," ","l","o","w","?"," "," ">>) @@
  ("" :> <<>>) @@
  ("   " :> <<" "," "," ">>) @@
  ("[GoogleGenerativeAI Error]: [400 Bad Request] API key not valid. Please pass a valid API key. reason: API_KEY_INVALID" :> <<"[","G","o","o","g","l","e","G","e","n","e","r","a","t","i","v","e","A","I"," ","E","r","r","o","r","]",":"," ","[","4","0","0"," ","B","a","d"," ","R","e","q","u","e","s","t","]"," ","A","P","I"," ","k","e","y"," ","n","o","t"," ","v","a","l","i","d","."," ","P","l","e","a","s","e"," ","p","a","s","s"," ","a"," ","v","a","l","i","d"," ","A","P","I"," ","k","e","y","."," ","r","e","a","s","o","n",":"," ","A","P","I","_","K","E","Y","_","I","N","V","A","L","I","D">>) @@
  ("API_KEY AIzaSyDemoKey was rejected" :> <<"A","P","I","_","K","E","Y"," ","A","I","z","a","S","y","D","e","m","o","K","e","y"," ","w","a","s"," ","r","e","j","e","c","t","e","d">>) @@
  ("[GoogleGenerativeAI Error]: [429 Too Many Requests] Resource has been exhausted (e.g. check quota)." :> <<"[","G","o","o","g","l","e","G","e","n","e","r","a","t","i","v","e","A","I"," ","E","r","r","o","r","]",":"," ","[","4","2","9"," ","T","o","o"," ","M","a","n","y"," ","R","e","q","u","e","s","t","s","]"," ","R","e","s","o","u","r","c","e"," ","h","a","s"," ","b","e","e","n"," ","e","x","h","a","u","s","t","e","d"," ","(","e",".","g","."," ","c","h","e","c","k"," ","q","u","o","t","a",")",".">>) @@
  ("fetch failed" :> <<"f","e","t","c","h"," ","f","a","i","l","e","d">>) @@
  ("429" :> <<"4","2","9">>) @@
  ("Cast to ObjectId failed for value at path _id" :> <<"C","a","s","t"," ","t","o"," ","O","b","j","e","c","t","I","d"," ","f","a","i","l","e","d"," ","f","o","r"," ","v","a","l","u","e"," ","a","t"," ","p","a","t","h"," ","_","i","d">>) @@
  ("LCP measures how fast the main content renders." :> <<"L","C","P"," ","m","e","a","s","u","r","e","s"," ","h","o","w"," ","f","a","s","t"," ","t","h","e"," ","m","a","i","n"," ","c","o","n","t","e","n","t"," ","r","e","n","d","e","r","s",".">>) @@
  ("t01" :> <<"t","0","1">>) @@
  ("t02" :> <<"t","0","2">>) @@
  ("t03" :> <<"t","0","3">>) @@
  ("t04" :> <<"t","0","4">>) @@
  ("t05" :> <<"t","0","5">>) @@
  ("t06" :> <<"t","0","6">>) @@
  ("t07" :> <<"t","0","7">>) @@
  ("t08" :> <<"t","0","8">>) @@
  ("t09" :> <<"t","0","9">>) @@
  ("t10" :> <<"t","1","0">>) @@
  ("t11" :> <<"t","1","1">>) @@
  ("t12" :> <<"t","1","2">>) @@
  ("t13" :> <<"t","1","3">>) @@
  ("t14" :> <<"t","1","4">>) @@
  ("t15" :> <<"t","1","5">>) @@
  ("t16" :> <<"t","1","6">>) @@
  ("Why is " :> <<"W","h","y"," ","i","s"," ">>) @@
  ("The" :> <<"T","h","e">>) @@
  ("score?" :> <<"s","c","o","r","e","?">>) @@
  ("mysite" :> <<"m","y","s","i","t","e">>) @@
  ("needs_optimization" :> <<"n","e","e","d","s","_","o","p","t","i","m","i","z","a","t","i","o","n">>) @@
  ("fix_now" :> <<"f","i","x","_","n","o","w">>) @@
  ("needs optimization" :> <<"n","e","e","d","s"," ","o","p","t","i","m","i","z","a","t","i","o","n">>) @@
  ("fix now" :> <<"f","i","x"," ","n","o","w">>) @@
  ("high" :> <<"h","i","g","h">>) @@
  ("info" :> <<"i","n","f","o">>) @@
  ("HIGH" :> <<"H","I","G","H">>) @@
  ("INFO" :> <<"I","N","F","O">>) @@
  ("what is" :> <<"w","h","a","t"," ","i","s">>) @@
  ("what are" :> <<"w","h","a","t"," ","a","r","e">>) @@
  ("how does" :> <<"h","o","w"," ","d","o","e","s">>) @@
  ("how do" :> <<"h","o","w"," ","d","o">>) @@
  ("how is" :> <<"h","o","w"," ","i","s">>) @@
  ("explain" :> <<"e","x","p","l","a","i","n">>) @@
  ("define" :> <<"d","e","f","i","n","e">>) @@
  ("tell me about" :> <<"t","e","l","l"," ","m","e"," ","a","b","o","u","t">>) @@
  ("what does" :> <<"w","h","a","t"," ","d","o","e","s">>) @@
  ("why are" :> <<"w","h","y"," ","a","r","e">>) @@
  ("why does" :> <<"w","h","y"," ","d","o","e","s">>) @@
  ("why do" :> <<"w","h","y"," ","d","o">>) @@
  ("Why is" :> <<"W","h","y"," ","i","s">>)
\* ---- End of character table ----


\* ---- String operations (JavaScript semantics, on character sequences) ----
LowerOf ==
  ("A" :> "a") @@ ("B" :> "b") @@ ("C" :> "c") @@ ("D" :> "d") @@ ("E" :> "e") @@
  ("F" :> "f") @@ ("G" :> "g") @@ ("H" :> "h") @@ ("I" :> "i") @@ ("J" :> "j") @@
  ("K" :> "k") @@ ("L" :> "l") @@ ("M" :> "m") @@ ("N" :> "n") @@ ("O" :> "o") @@
  ("P" :> "p") @@ ("Q" :> "q") @@ ("R" :> "r") @@ ("S" :> "s") @@ ("T" :> "t") @@
  ("U" :> "u") @@ ("V" :> "v") @@ ("W" :> "w") @@ ("X" :> "x") @@ ("Y" :> "y") @@
  ("Z" :> "z")
Digits == {"0", "1", "2", "3", "4", "5", "6", "7", "8", "9"}
\* the characters a regular expression's \w matches
WordChars == DOMAIN LowerOf \cup {LowerOf[c] : c \in DOMAIN LowerOf} \cup Digits \cup {"_"}
\* the characters trim() strips and \s matches
WhiteSpace == {" ", "\t", "\n", "\r"}
\* the characters the regular expression's . does not match
LineTerminators == {"\n", "\r"}

\* String.prototype.toLowerCase
toLowerCase(cs) == [i \in 1..Len(cs) |-> IF cs[i] \in DOMAIN LowerOf THEN LowerOf[cs[i]] ELSE cs[i]]

\* String.prototype.trim
trim(cs) ==
  LET keep == {i \in 1..Len(cs) : cs[i] \notin WhiteSpace}
  IN  IF keep = {} THEN <<>>
      ELSE LET lo == CHOOSE i \in keep : \A j \in keep : i <= j
               hi == CHOOSE i \in keep : \A j \in keep : j <= i
           IN  SubSeq(cs, lo, hi)

\* the pattern k occurs in cs starting at position i
MatchAt(cs, k, i) == i >= 1 /\ i + Len(k) - 1 <= Len(cs) /\ SubSeq(cs, i, i + Len(k) - 1) = k

\* String.prototype.includes
includes(cs, k) == \E i \in 1..(Len(cs) - Len(k) + 1) : MatchAt(cs, k, i)

\* String.prototype.startsWith, the regular expression ^k
startsWith(cs, k) == MatchAt(cs, k, 1)

\* the regular expression \bk\b for a k that begins and ends with a word character
wordMatch(cs, k) ==
  \E i \in 1..(Len(cs) - Len(k) + 1) :
     /\ MatchAt(cs, k, i)
     /\ (i = 1 \/ cs[i - 1] \notin WordChars)
     /\ (i + Len(k) - 1 = Len(cs) \/ cs[i + Len(k)] \notin WordChars)

\* the regular expression \b(k1|k2|...)\b.test(cs), the alternatives given as strings
anyWord(cs, words) == \E n \in 1..Len(words) : wordMatch(cs, Chars[words[n]])

\* the string whose characters are cs
Str(cs) == CHOOSE s \in DOMAIN Chars : Chars[s] = cs

\* ---- intentRouter.js ----
\* CONCEPT_PATTERNS[n].test(text), n = 1..7, in the order of the source
conceptPattern(n, text) ==
  CASE n = 1 -> \E k \in 1..Len(WhatOpeners) : startsWith(text, Chars[WhatOpeners[k]])
    [] n = 2 -> \E k \in 1..Len(HowOpeners) : startsWith(text, Chars[HowOpeners[k]])
    [] n = 3 -> startsWith(text, Chars[PlainOpeners[1]])
    [] n = 4 -> startsWith(text, Chars[PlainOpeners[2]])
    [] n = 5 -> startsWith(text, Chars[PlainOpeners[3]])
    [] n = 6 -> /\ startsWith(text, Chars[WhatDoesOpener])
                /\ \E i \in (Len(Chars[WhatDoesOpener]) + 2)..Len(text) :
                      /\ MatchAt(text, Chars[MeanWord], i)
                      /\ \A j \in (Len(Chars[WhatDoesOpener]) + 1)..(i - 1) :
                            text[j] \notin LineTerminators
    [] n = 7 -> \E k \in 1..Len(WhyOpeners) :
                   /\ startsWith(text, Chars[WhyOpeners[k]])
                   /\ \A x \in 1..Len(WhyExcluded) :
                         ~MatchAt(text, Chars[WhyExcluded[x]], Len(Chars[WhyOpeners[k]]) + 1)
ConceptPatternCount == 7

hasOwnership(text) == anyWord(text, OwnershipPronouns) /\ anyWord(text, OwnershipSubjects)

reportScore(text, hasReportId) ==
  (IF hasOwnership(text) THEN 5 ELSE 0)
  + Cardinality({n \in 1..Len(REPORT_KEYWORDS) : includes(text, Chars[REPORT_KEYWORDS[n]])})
  + (IF anyWord(text, MetricAcronyms)
       THEN (IF hasReportId \/ hasOwnership(text) THEN 3 ELSE 1)
       ELSE 0)

conceptScore(text) ==
  3 * Cardinality({n \in 1..ConceptPatternCount : conceptPattern(n, text)})
  + 2 * Cardinality({n \in 1..Len(CONCEPT_TERMS) : includes(text, Chars[CONCEPT_TERMS[n]])})

\* variant: the concept threshold is tested before the report threshold
decide_ConceptFirst(rScore, cScore, hasReportId) ==
  IF cScore >= 3 THEN [intent |-> "WEBSITE_CONCEPT_INTENT", confidence |-> 90]
  ELSE IF rScore >= 5 THEN [intent |-> "REPORT_INTENT", confidence |-> 95]
  ELSE IF rScore >= 2
    THEN IF hasReportId THEN [intent |-> "REPORT_INTENT", confidence |-> 70]
                        ELSE [intent |-> "WEBSITE_CONCEPT_INTENT", confidence |-> 60]
  ELSE [intent |-> "GENERAL_INTENT", confidence |-> 50]
\* variant: a weak report signal is treated alike with and without a report
decide_NoContext(rScore, cScore, hasReportId) ==
  IF rScore >= 5 THEN [intent |-> "REPORT_INTENT", confidence |-> 95]
  ELSE IF cScore >= 3 THEN [intent |-> "WEBSITE_CONCEPT_INTENT", confidence |-> 90]
  ELSE IF rScore >= 2 THEN [intent |-> "WEBSITE_CONCEPT_INTENT", confidence |-> 60]
  ELSE [intent |-> "GENERAL_INTENT", confidence |-> 50]
\* variant: a weak report signal gives REPORT_INTENT 0.7 with and without a report
decide_WeakReport(rScore, cScore, hasReportId) ==
  IF rScore >= 5 THEN [intent |-> "REPORT_INTENT", confidence |-> 95]
  ELSE IF cScore >= 3 THEN [intent |-> "WEBSITE_CONCEPT_INTENT", confidence |-> 90]
  ELSE IF rScore >= 2 THEN [intent |-> "REPORT_INTENT", confidence |-> 70]
  ELSE [intent |-> "GENERAL_INTENT", confidence |-> 50]
\* Phase 3 of detectIntent; a confidence is given in hundredths (0.95 is 95)
decide(rScore, cScore, hasReportId) ==
  IF rScore >= 5 THEN [intent |-> "REPORT_INTENT", confidence |-> 95]
  ELSE IF cScore >= 3 THEN [intent |-> "WEBSITE_CONCEPT_INTENT", confidence |-> 90]
  ELSE IF rScore >= 2
    THEN IF hasReportId THEN [intent |-> "REPORT_INTENT", confidence |-> 70]
                        ELSE [intent |-> "WEBSITE_CONCEPT_INTENT", confidence |-> 60]
  ELSE [intent |-> "GENERAL_INTENT", confidence |-> 50]

\* detectIntent(message, hasReportId), the message given by its characters
detectIntentOf(cs, hasReportId) ==
  LET text == trim(toLowerCase(cs))
  IN  decide(reportScore(text, hasReportId), conceptScore(text), hasReportId)
\* detectIntent(message, hasReportId), message a string
detectIntent(message, hasReportId) == detectIntentOf(Chars[message], hasReportId)

\* ---- chatService.js: detectSources ----
\* variant: overview is pushed whatever was detected
detectSourcesOf_Overview(cs) ==
  LET text == toLowerCase(cs)
  IN  (IF anyWord(text, PerformanceWords) THEN <<"performance">> ELSE <<>>)
      \o (IF anyWord(text, SeoWords) THEN <<"seo">> ELSE <<>>)
      \o (IF anyWord(text, UxWords) THEN <<"ux">> ELSE <<>>)
      \o (IF anyWord(text, ContentWords) THEN <<"content">> ELSE <<>>)
      \o <<"overview">>
\* detectSources(message), the message given by its characters
detectSourcesOf(cs) ==
  LET text == toLowerCase(cs)
      sources ==
        (IF anyWord(text, PerformanceWords) THEN <<"performance">> ELSE <<>>)
        \o (IF anyWord(text, SeoWords) THEN <<"seo">> ELSE <<>>)
        \o (IF anyWord(text, UxWords) THEN <<"ux">> ELSE <<>>)
        \o (IF anyWord(text, ContentWords) THEN <<"content">> ELSE <<>>)
  IN  IF Len(sources) = 0 THEN <<"overview">> ELSE sources
\* detectSources(message), message a string
detectSources(message) == detectSourcesOf(Chars[message])


\* ---- Bounds of the model ----
\* the longest history a client supplies
MaxHistory == 12
\* the number of messages sent in one widget session
MaxTurns == 2
\* the number of words after the opener of a composed message
MaxWords == 2

\* ---- Values ----
\* a report identifier that is undefined, null or empty: all are falsy, and the
\* code tests a report identifier for truthiness only
NoReportId == ""
ReportIds == {NoReportId, "rpt1"}
\* a field of a document that is missing or null
Null == "null"

\* A value of the JSON request body's message field
JsonString(s) == [t |-> "string", v |-> s]
JsonUndefined == [t |-> "undefined", v |-> ""]
JsonNumber == [t |-> "number", v |-> "123"]
BodyMessages == {JsonString(s) : s \in TypedMessages} \cup {JsonUndefined, JsonNumber}

\* ChatMessage {role, text, intent?, sources?}
ChatMessage(role, text, intentTag, srcs) ==
  [role |-> role, text |-> text, intent |-> intentTag, sources |-> srcs]
UserMessage(text) == ChatMessage("user", text, "none", <<>>)

\* a history of n turns, alternating user and assistant, oldest first
SuppliedHistory(n) ==
  [i \in 1..n |->
     ChatMessage(IF i % 2 = 1 THEN "user" ELSE "assistant", HistoryTexts[i], "none", <<>>)]

\* Report documents of the store
ModuleNames == <<"performance", "seo", "ux", "content">>
\* the scalar fields of a document the context is built from; a field held in a
\* missing sub-document (aggregator, module_scores, metrics, violations_by_impact)
\* reads as missing
FieldNames ==
  { "final_url", "created_at",
    "agg.website_health_score", "agg.health_grade", "agg.overall_risk_level",
    "agg.action_recommendation_flag", "agg.performance", "agg.seo", "agg.ux", "agg.content",
    "performance.score", "performance.confidence", "performance.recommendation_flag",
    "performance.lcp_s", "performance.cls", "performance.fcp_s", "performance.ttfb_s",
    "performance.tbt_ms", "performance.total_js_kb", "performance.total_css_kb",
    "performance.total_images_kb", "performance.total_requests",
    "seo.score", "seo.indexability_status", "seo.crawl_health_indicator",
    "seo.recommendation_flag", "seo.title_length", "seo.meta_description_length",
    "seo.h1_count", "seo.images_missing_alt_count", "seo.internal_links_count",
    "seo.external_links_count",
    "ux.score", "ux.accessibility_risk_level", "ux.trust_impact_indicator",
    "ux.recommendation_flag", "ux.violations_count", "ux.critical", "ux.serious",
    "ux.moderate", "ux.minor", "ux.ctas_count", "ux.ctas_above_fold",
    "content.score", "content.intent_match_level", "content.content_depth_status",
    "content.recommendation_flag", "content.word_count", "content.flesch_reading_ease",
    "content.flesch_kincaid_grade",
    "insights.executiveSummary" }

\* the issues and fixes of a module that has some
SomeIssues ==
  << [severity |-> "high", description |-> "Largest image is 2.4 MB", message |-> Null],
     [severity |-> Null, description |-> Null, message |-> "Render-blocking script"] >>
SomeFixes ==
  << [title |-> "Compress images", name |-> Null, description |-> "Serve WebP", priority |-> "1"],
     [title |-> Null, name |-> Null, description |-> Null, priority |-> Null] >>

\* a document: present is the set of modules it holds, insights whether it holds
\* ai_insights, lists whether its arrays have entries, missing the set of scalar
\* fields that are missing or null
MakeReport(present, insights, lists, missing) ==
  LET F(name, v) == IF name \in missing THEN Null ELSE v
      L(array) == IF lists THEN array ELSE <<>>
  IN
  [ final_url |-> F("final_url", "https://www.example.org"),
    url |-> "http://example.org",
    created_at |-> F("created_at", "2026-01-15T10:00:00.000Z"),
    aggregator |->
      [ website_health_score |-> F("agg.website_health_score", "72"),
        health_grade |-> F("agg.health_grade", "C"),
        overall_risk_level |-> F("agg.overall_risk_level", "medium"),
        action_recommendation_flag |-> F("agg.action_recommendation_flag", "needs_optimization"),
        dominant_risk_domains |-> L(<<"performance", "content">>),
        module_scores |-> [performance |-> F("agg.performance", "55"), seo |-> F("agg.seo", "80"),
                           ux |-> F("agg.ux", "70"), content |-> F("agg.content", "0")] ],
    modules |->
      [ performance |->
          [ present |-> "performance" \in present,
            score |-> F("performance.score", "55"),
            confidence |-> F("performance.confidence", "0.9"),
            recommendation_flag |-> F("performance.recommendation_flag", "fix_now"),
            lcp_s |-> F("performance.lcp_s", "4.2"), cls |-> F("performance.cls", "0.31"),
            fcp_s |-> F("performance.fcp_s", "2.0"), ttfb_s |-> F("performance.ttfb_s", "0.9"),
            tbt_ms |-> F("performance.tbt_ms", "650"),
            total_js_kb |-> F("performance.total_js_kb", "900"),
            total_css_kb |-> F("performance.total_css_kb", "120"),
            total_images_kb |-> F("performance.total_images_kb", "2400"),
            total_requests |-> F("performance.total_requests", "87"),
            dominant_negative_factors |-> L(<<"Large images", "Blocking scripts">>),
            issues |-> L(SomeIssues), fixes |-> L(SomeFixes) ],
        seo |->
          [ present |-> "seo" \in present,
            score |-> F("seo.score", "80"),
            indexability_status |-> F("seo.indexability_status", "indexable"),
            crawl_health_indicator |-> F("seo.crawl_health_indicator", "healthy"),
            recommendation_flag |-> F("seo.recommendation_flag", "needs_optimization"),
            title_length |-> F("seo.title_length", "48"),
            meta_description_length |-> F("seo.meta_description_length", "0"),
            h1_count |-> F("seo.h1_count", "2"),
            images_missing_alt_count |-> F("seo.images_missing_alt_count", "5"),
            internal_links_count |-> F("seo.internal_links_count", "14"),
            external_links_count |-> F("seo.external_links_count", "3"),
            primary_seo_risks |-> L(<<"missing meta description">>),
            issues |-> L(SomeIssues), fixes |-> <<>> ],
        ux |->
          [ present |-> "ux" \in present,
            score |-> F("ux.score", "70"),
            accessibility_risk_level |-> F("ux.accessibility_risk_level", "high"),
            trust_impact_indicator |-> F("ux.trust_impact_indicator", "moderate"),
            recommendation_flag |-> F("ux.recommendation_flag", "fix_now"),
            violations_count |-> F("ux.violations_count", "6"),
            critical |-> F("ux.critical", "1"), serious |-> F("ux.serious", "2"),
            moderate |-> F("ux.moderate", "3"), minor |-> F("ux.minor", "0"),
            ctas_count |-> F("ux.ctas_count", "4"),
            ctas_above_fold |-> F("ux.ctas_above_fold", "1"),
            primary_friction_sources |-> L(<<"low contrast", "small tap targets">>),
            issues |-> <<>>, fixes |-> L(SomeFixes) ],
        content |->
          [ present |-> "content" \in present,
            score |-> F("content.score", "64"),
            intent_match_level |-> F("content.intent_match_level", "partial"),
            content_depth_status |-> F("content.content_depth_status", "thin"),
            recommendation_flag |-> F("content.recommendation_flag", "needs_optimization"),
            word_count |-> F("content.word_count", "280"),
            flesch_reading_ease |-> F("content.flesch_reading_ease", "61.27"),
            flesch_kincaid_grade |-> F("content.flesch_kincaid_grade", "8"),
            keywords |-> L(<<"audit", "speed", "seo">>),
            primary_content_gaps |-> L(<<"no pricing information">>),
            issues |-> <<>>, fixes |-> <<>> ] ],
    ai_insights |->
      [ present |-> insights,
        executiveSummary |-> F("insights.executiveSummary", "The site is slow on mobile."),
        topPriorities |->
          L(<< [title |-> "Compress images", impact |-> "high", estimatedROI |-> Null,
                description |-> "Largest gain for the least work"],
               [title |-> Null, impact |-> Null, estimatedROI |-> "medium", description |-> Null] >>),
        quickWins |-> L(<<"Add alt text">>),
        longTermGoals |-> L(<<"Move to a CDN", "Rewrite the landing page">>) ] ]

\* the documents the store answers with in a chat call
DocFull == MakeReport({"performance", "seo", "ux", "content"}, TRUE, TRUE,
                      {"final_url", "agg.content", "content.score", "ux.violations_count"})
DocBare == MakeReport({"seo"}, FALSE, FALSE, FieldNames \ {"final_url"})
Documents == {DocFull, DocBare}

\* What Report.findById answers: a document, null, or a raised error
FetchOutcomes ==
  {[kind |-> "doc", doc |-> d, error |-> ""] : d \in Documents}
  \cup {[kind |-> "null", doc |-> DocBare, error |-> ""],
        [kind |-> "error", doc |-> DocBare, error |-> ErrStore]}
NoFetch == [kind |-> "none", doc |-> DocBare, error |-> ""]

\* What the vendor answers to generateContent: a text (possibly none), or a
\* raised error, whose message may be undefined
GatewayOutcomes ==
  {[kind |-> "text", text |-> t, hasMessage |-> FALSE] : t \in {ModelText, NoText}}
  \cup {[kind |-> "error", text |-> m, hasMessage |-> TRUE] :
          m \in {ErrInvalidKey, ErrKeyEcho, ErrRateLimit, ErrOther}}
  \cup {[kind |-> "error", text |-> "", hasMessage |-> FALSE]}
NoGateway == [kind |-> "none", text |-> "", hasMessage |-> FALSE]

\* ---- contextBuilder.js ----
\* v ?? 'N/A'
orNA(v) == IF v = Null THEN "N/A" ELSE v
\* report.final_url || report.url
reportUrl(report) == IF report.final_url # Null THEN report.final_url ELSE report.url

\* A text is the sequence of the segments a template literal concatenates; a line
\* break of the template is the segment "\n".
RECURSIVE joinWith(_, _)
\* array.join(sep) of an array of texts
joinWith(texts, sep) ==
  IF Len(texts) = 0 THEN <<>>
  ELSE IF Len(texts) = 1 THEN texts[1]
  ELSE texts[1] \o <<sep>> \o joinWith(Tail(texts), sep)
\* the lines of a template literal
joinLines(lines) == joinWith(lines, "\n")
\* array.join(', ') of an array of strings
joinComma(strings) == joinWith([i \in 1..Len(strings) |-> <<strings[i]>>], ", ")

\* v ?? 0
orZero(v) == IF v = Null THEN "0" ELSE v
\* v != null ? v + unit : 'N/A'
withUnit(v, unit) == IF v # Null THEN <<v, unit>> ELSE <<"N/A">>
\* String.prototype.replace(/_/g, ' ')
replaceUnderscores(cs) == [i \in 1..Len(cs) |-> IF cs[i] = "_" THEN " " ELSE cs[i]]
\* flag?.replace(/_/g, ' ') ?? 'N/A'
flagText(flag) == IF flag = Null THEN "N/A" ELSE Str(replaceUnderscores(Chars[flag]))
\* String.prototype.toUpperCase
toUpperCase(cs) ==
  [i \in 1..Len(cs) |->
     IF \E u \in DOMAIN LowerOf : LowerOf[u] = cs[i]
       THEN CHOOSE u \in DOMAIN LowerOf : LowerOf[u] = cs[i]
       ELSE cs[i]]
\* Number.prototype.toFixed(1) on the numbers of the reports
toFixed1 == ("61.27" :> "61.3") @@ ("8" :> "8.0") @@ ("9.95" :> "9.9")
\* new Date(created_at).toLocaleDateString(), in the en-US locale
toLocaleDateString == ("2026-01-15T10:00:00.000Z" :> "1/15/2026")
\* the decimal text of a small number, and of an array length
numberText(n) == <<"0", "1", "2", "3", "4", "5", "6", "7", "8">>[n + 1]
lengthText(array) == numberText(Len(array))
RECURSIVE concat(_)
\* the texts of a sequence, one after the other
concat(texts) == IF Len(texts) = 0 THEN <<>> ELSE texts[1] \o concat(Tail(texts))

\* formatIssuesAndFixes(moduleData)
\* JSON.stringify of an issue that has neither a description nor a message
issueJson(issue) ==
  IF issue.severity = Null THEN "{}" ELSE "{\"severity\":\"" \o issue.severity \o "\"}"
issueLine(issues, i) ==
  << "\n  ", numberText(i), ". [",
     Str(toUpperCase(Chars[IF issues[i].severity = Null THEN "info" ELSE issues[i].severity])),
     "] ",
     IF issues[i].description # Null THEN issues[i].description
     ELSE IF issues[i].message # Null THEN issues[i].message
     ELSE issueJson(issues[i]) >>
fixLine(fixes, i) ==
  << "\n  ", numberText(i), ". " >>
  \o (IF fixes[i].priority # Null THEN << "[", "P", fixes[i].priority, "] " >> ELSE <<>>)
  \o << IF fixes[i].title # Null THEN fixes[i].title
        ELSE IF fixes[i].name # Null THEN fixes[i].name
        ELSE "Fix" >>
  \o (IF fixes[i].description # Null THEN << ": ", fixes[i].description >> ELSE <<>>)
formatIssuesAndFixes(moduleData) ==
  (IF Len(moduleData.issues) > 0
     THEN << "\n\nIssues Found (", lengthText(moduleData.issues), "):" >>
          \o concat([i \in 1..Len(moduleData.issues) |-> issueLine(moduleData.issues, i)])
     ELSE <<>>)
  \o (IF Len(moduleData.fixes) > 0
        THEN << "\n\nRecommended Fixes (", lengthText(moduleData.fixes), "):" >>
             \o concat([i \in 1..Len(moduleData.fixes) |-> fixLine(moduleData.fixes, i)])
        ELSE <<>>)

\* the first segment of the header line of each section
OverviewHeader == "## WEBSITE AUDIT OVERVIEW"
ModuleHeaders ==
  [performance |-> "## PERFORMANCE MODULE", seo |-> "## SEO MODULE",
   ux |-> "## UX & ACCESSIBILITY MODULE", content |-> "## CONTENT QUALITY MODULE"]
InsightsHeader == "## AI STRATEGIC INSIGHTS"

\* formatOverview(report, agg), agg = report.aggregator || {}
formatOverview(report) ==
  LET agg == report.aggregator
      scores == agg.module_scores
  IN  joinLines(<<
        << OverviewHeader >>,
        << "URL: ", reportUrl(report) >>,
        << "Overall Health Score: ", orNA(agg.website_health_score), " / 100" >>,
        << "Health Grade: ", orNA(agg.health_grade) >>,
        << "Overall Risk Level: ", orNA(agg.overall_risk_level) >>,
        << "Action Recommendation: ", flagText(agg.action_recommendation_flag) >>,
        << "Dominant Risk Domains: " >>
          \o (IF Len(agg.dominant_risk_domains) = 0 THEN << "None" >>
              ELSE joinComma(agg.dominant_risk_domains)),
        << "Module Scores:" >>,
        << "  - Performance: ", orNA(scores.performance), "/100" >>,
        << "  - SEO: ", orNA(scores.seo), "/100" >>,
        << "  - UX & Accessibility: ", orNA(scores.ux), "/100" >>,
        << "  - Content Quality: ", orNA(scores.content), "/100" >>,
        << "Analysis Date: ",
           IF report.created_at # Null THEN toLocaleDateString[report.created_at] ELSE "N/A" >> >>)

\* formatPerformance(perf), m = perf.metrics || {}
formatPerformance(perf) ==
  joinLines(<<
    << ModuleHeaders.performance, " (Score: ", orNA(perf.score), "/100)" >>,
    << "Confidence: ", orNA(perf.confidence) >>,
    << "Recommendation: ", flagText(perf.recommendation_flag) >>,
    <<>>,
    << "Key Metrics:" >>,
    << "  - LCP (Largest Contentful Paint): " >> \o withUnit(perf.lcp_s, "s")
       \o << " (good: <2.5s, bad: >4.0s)" >>,
    << "  - CLS (Cumulative Layout Shift): ", orNA(perf.cls), " (good: <0.1, bad: >0.25)" >>,
    << "  - FCP (First Contentful Paint): " >> \o withUnit(perf.fcp_s, "s")
       \o << " (good: <1.8s, bad: >3.0s)" >>,
    << "  - TTFB (Time to First Byte): " >> \o withUnit(perf.ttfb_s, "s")
       \o << " (good: <0.8s, bad: >1.8s)" >>,
    << "  - TBT (Total Blocking Time): " >> \o withUnit(perf.tbt_ms, "ms")
       \o << " (good: <200ms, bad: >600ms)" >>,
    << "  - Total JS Size: " >> \o withUnit(perf.total_js_kb, " KB"),
    << "  - Total CSS Size: " >> \o withUnit(perf.total_css_kb, " KB"),
    << "  - Total Image Size: " >> \o withUnit(perf.total_images_kb, " KB"),
    << "  - Total Requests: ", orNA(perf.total_requests) >> >>)
  \o (IF Len(perf.dominant_negative_factors) > 0
        THEN << "\n\nDominant Negative Factors:\n" >>
             \o joinLines([i \in 1..Len(perf.dominant_negative_factors) |->
                             << "  - ", perf.dominant_negative_factors[i] >>])
        ELSE <<>>)
  \o formatIssuesAndFixes(perf)

\* formatSEO(seo)
formatSEO(seo) ==
  joinLines(<<
    << ModuleHeaders.seo, " (Score: ", orNA(seo.score), "/100)" >>,
    << "Indexability Status: ", orNA(seo.indexability_status) >>,
    << "Crawl Health: ", orNA(seo.crawl_health_indicator) >>,
    << "Recommendation: ", flagText(seo.recommendation_flag) >>,
    <<>>,
    << "Key Metrics:" >>,
    << "  - Title Length: ", orNA(seo.title_length), " chars (ideal: 30-60)" >>,
    << "  - Meta Description Length: ", orNA(seo.meta_description_length),
       " chars (ideal: 120-160)" >>,
    << "  - H1 Count: ", orNA(seo.h1_count), " (ideal: exactly 1)" >>,
    << "  - Images Missing Alt Text: ", orNA(seo.images_missing_alt_count) >>,
    << "  - Internal Links: ", orNA(seo.internal_links_count) >>,
    << "  - External Links: ", orNA(seo.external_links_count) >> >>)
  \o (IF Len(seo.primary_seo_risks) > 0
        THEN << "\nPrimary SEO Risks: " >> \o joinComma(seo.primary_seo_risks)
        ELSE <<>>)
  \o formatIssuesAndFixes(seo)

\* formatUX(ux), byImpact = ux.violations_by_impact || {}
formatUX(ux) ==
  joinLines(<<
    << ModuleHeaders.ux, " (Score: ", orNA(ux.score), "/100)" >>,
    << "Accessibility Risk Level: ", orNA(ux.accessibility_risk_level) >>,
    << "Trust Impact: ", orNA(ux.trust_impact_indicator) >>,
    << "Recommendation: ", flagText(ux.recommendation_flag) >>,
    <<>>,
    << "Key Metrics:" >>,
    << "  - Total Violations: ", orZero(ux.violations_count) >>,
    << "  - Critical Violations: ", orZero(ux.critical) >>,
    << "  - Serious Violations: ", orZero(ux.serious) >>,
    << "  - Moderate Violations: ", orZero(ux.moderate) >>,
    << "  - Minor Violations: ", orZero(ux.minor) >>,
    << "  - Total CTAs: ", orNA(ux.ctas_count) >>,
    << "  - CTAs Above Fold: ", orNA(ux.ctas_above_fold) >> >>)
  \o (IF Len(ux.primary_friction_sources) > 0
        THEN << "\nFriction Sources: " >> \o joinComma(ux.primary_friction_sources)
        ELSE <<>>)
  \o formatIssuesAndFixes(ux)

\* formatContent(content); keywords is the array of keywords, empty when the
\* field is missing (both have no length to show)
formatContent(content) ==
  joinLines(<<
    << ModuleHeaders.content, " (Score: ", orNA(content.score), "/100)" >>,
    << "Intent Match Level: ", orNA(content.intent_match_level) >>,
    << "Content Depth Status: ", orNA(content.content_depth_status) >>,
    << "Recommendation: ", flagText(content.recommendation_flag) >>,
    <<>>,
    << "Key Metrics:" >>,
    << "  - Word Count: ", orNA(content.word_count), " (ideal: >300, good: >800)" >>,
    << "  - Flesch Reading Ease: ",
       IF content.flesch_reading_ease # Null THEN toFixed1[content.flesch_reading_ease] ELSE "N/A",
       " (higher = easier to read)" >>,
    << "  - Flesch-Kincaid Grade Level: ",
       IF content.flesch_kincaid_grade # Null THEN toFixed1[content.flesch_kincaid_grade] ELSE "N/A" >>,
    << "  - Keywords Found: ", lengthText(content.keywords) >> >>)
  \o (IF Len(content.primary_content_gaps) > 0
        THEN << "\nContent Gaps: " >> \o joinComma(content.primary_content_gaps)
        ELSE <<>>)
  \o (IF Len(content.keywords) > 0
        THEN << "\nTop Keywords: " >>
             \o joinComma(SubSeq(content.keywords, 1, IF Len(content.keywords) < 8
                                                        THEN Len(content.keywords) ELSE 8))
        ELSE <<>>)
  \o formatIssuesAndFixes(content)

\* the formatter buildReportContext applies to a module
formatModule(name, data) ==
  CASE name = "performance" -> formatPerformance(data)
    [] name = "seo" -> formatSEO(data)
    [] name = "ux" -> formatUX(data)
    [] name = "content" -> formatContent(data)

\* formatAIInsights(insights)
priorityLines(priorities, i) ==
  << "\n  ", numberText(i), ". ",
     IF priorities[i].title # Null THEN priorities[i].title ELSE "Priority",
     " (Impact: ", orNA(priorities[i].impact), ", ROI: ", orNA(priorities[i].estimatedROI), ")" >>
  \o (IF priorities[i].description # Null THEN << "\n     ", priorities[i].description >> ELSE <<>>)
formatAIInsights(insights) ==
  << InsightsHeader >>
  \o (IF insights.executiveSummary # Null
        THEN << "\nExecutive Summary: ", insights.executiveSummary >> ELSE <<>>)
  \o (IF Len(insights.topPriorities) > 0
        THEN << "\n\nTop Priorities:" >>
             \o concat([i \in 1..Len(insights.topPriorities) |->
                          priorityLines(insights.topPriorities, i)])
        ELSE <<>>)
  \o (IF Len(insights.quickWins) > 0
        THEN << "\n\nQuick Wins:\n" >>
             \o joinLines([i \in 1..Len(insights.quickWins) |-> << "  - ", insights.quickWins[i] >>])
        ELSE <<>>)
  \o (IF Len(insights.longTermGoals) > 0
        THEN << "\n\nLong Term Goals:\n" >>
             \o joinLines([i \in 1..Len(insights.longTermGoals) |->
                             << "  - ", insights.longTermGoals[i] >>])
        ELSE <<>>)

\* the chunks buildReportContext pushes, in the order it pushes them
RECURSIVE moduleChunks(_, _)
moduleChunks(report, n) ==
  IF n > Len(ModuleNames) THEN <<>>
  ELSE (IF report.modules[ModuleNames[n]].present
          THEN << formatModule(ModuleNames[n], report.modules[ModuleNames[n]]) >>
          ELSE <<>>)
       \o moduleChunks(report, n + 1)
\* variant: the insights chunk is pushed right after the overview
contextChunks_InsightsFirst(report) ==
  << formatOverview(report) >>
  \o (IF report.ai_insights.present THEN << formatAIInsights(report.ai_insights) >> ELSE <<>>)
  \o moduleChunks(report, 1)
contextChunks(report) ==
  << formatOverview(report) >> \o moduleChunks(report, 1)
  \o (IF report.ai_insights.present THEN << formatAIInsights(report.ai_insights) >> ELSE <<>>)
\* chunks.join('\n\n')
fullContext(report) == joinWith(contextChunks(report), "\n\n")

\* variant: no document and a failed fetch give an empty context
buildReportContext_NoThrow(fetch) ==
  IF fetch.kind = "doc" THEN [kind |-> "return", fullContext |-> fullContext(fetch.doc), error |-> ""]
  ELSE [kind |-> "return", fullContext |-> <<>>, error |-> ""]
\* buildReportContext(reportId), given what findById answers: its value or its raise
buildReportContext(fetch) ==
  IF fetch.kind = "doc" THEN [kind |-> "return", fullContext |-> fullContext(fetch.doc), error |-> ""]
  ELSE IF fetch.kind = "null" THEN [kind |-> "throw", fullContext |-> <<>>, error |-> ReportNotFound]
  ELSE [kind |-> "throw", fullContext |-> <<>>, error |-> fetch.error]

\* variant: no test for a missing document and no catch, the summary is built
\* from whatever the store answered
buildReportSummary_Unguarded(fetch) ==
  joinLines(<<
    << "[User's website: ", IF fetch.kind = "doc" THEN reportUrl(fetch.doc) ELSE "undefined", "]" >>,
    << "Health Score: ", "N/A", "/100 (Grade: ", "N/A", ")" >> >>)
\* buildReportSummary(reportId) for a truthy identifier, given what findById
\* answers: the summary, or the empty text when there is no document or the
\* fetch raised (the catch)
buildReportSummary(fetch) ==
  IF fetch.kind = "doc"
    THEN LET agg == fetch.doc.aggregator
             scores == agg.module_scores
         IN  joinLines(<<
               << "[User's website: ", reportUrl(fetch.doc), "]" >>,
               << "Health Score: ", orNA(agg.website_health_score),
                  "/100 (Grade: ", orNA(agg.health_grade), ")" >>,
               << "Module Scores - Performance: ", orNA(scores.performance),
                  ", SEO: ", orNA(scores.seo), ", UX: ", orNA(scores.ux),
                  ", Content: ", orNA(scores.content) >>,
               << "Risk Level: ", orNA(agg.overall_risk_level) >> >>)
    ELSE <<>>

\* buildReportSummary(reportId): a falsy identifier returns the empty text before
\* any fetch
summaryFor(reportId, fetch) ==
  IF reportId = NoReportId THEN [text |-> <<>>, fetches |-> 0]
  ELSE [text |-> buildReportSummary(fetch), fetches |-> 1]

\* ---- chatService.js: prompts and the gateway ----
\* the user prompt of handleReportIntent
reportPrompt(context, userMessage) ==
  << "=== WEBSITE AUDIT REPORT DATA ===" >> \o context
  \o << "=== END OF REPORT DATA ===", "User Question: ", userMessage >>
\* the user prompt of handleConceptIntent; summary is empty when there is none
conceptPrompt(summary, userMessage) ==
  (IF summary # <<>>
     THEN << "=== USER'S REPORT SUMMARY (reference if relevant) ===" >> \o summary \o << "=== END ===" >>
     ELSE <<>>)
  \o << "User Question: ", userMessage >>
\* the user prompt of handleGeneralIntent
generalPrompt(userMessage) == << "User Question: ", userMessage >>

\* the number of history entries callGemini keeps
HistoryLimit == 10
\* variant: slice(0, 10), the oldest entries
historySlice_First(chatHistory) ==
  IF Len(chatHistory) <= HistoryLimit THEN chatHistory ELSE SubSeq(chatHistory, 1, HistoryLimit)
\* chatHistory.slice(-10)
historySlice(chatHistory) ==
  IF Len(chatHistory) <= HistoryLimit THEN chatHistory
  ELSE SubSeq(chatHistory, Len(chatHistory) - HistoryLimit + 1, Len(chatHistory))

\* the role callGemini gives a history entry
vendorRole(role) == IF role = "assistant" THEN "model" ELSE "user"

\* the contents callGemini sends: the kept history, then the current prompt
geminiContents(userPrompt, chatHistory) ==
  [i \in 1..Len(historySlice(chatHistory)) |->
     [role |-> vendorRole(historySlice(chatHistory)[i].role),
      parts |-> << historySlice(chatHistory)[i].text >>]]
  \o << [role |-> "user", parts |-> userPrompt] >>

\* what callGemini does with a text the vendor returned: return response.text()
geminiText(text) == text

\* variant: the catch returns the vendor's message for a credential error
geminiCatch_Echo(outcome) ==
  IF outcome.hasMessage /\ includes(Chars[outcome.text], Chars[ApiKeyMarker])
    THEN [kind |-> "return", reply |-> outcome.text, error |-> ""]
    ELSE [kind |-> "throw", reply |-> "", error |-> outcome.text]
\* what callGemini's catch does with an error of the vendor: its value or its raise
geminiCatch(outcome) ==
  IF outcome.hasMessage /\ includes(Chars[outcome.text], Chars[ApiKeyMarker])
    THEN [kind |-> "return", reply |-> InvalidKeyReply, error |-> ""]
    ELSE [kind |-> "throw", reply |-> "", error |-> outcome.text]

\* callGemini, given what the vendor answers
callGemini(outcome) ==
  IF outcome.kind = "text"
    THEN [kind |-> "return", reply |-> geminiText(outcome.text), error |-> ""]
    ELSE geminiCatch(outcome)

\* ---- chatService.js: chat ----
NoResult == [kind |-> "none", reply |-> "", intent |-> "none", sources |-> <<>>, error |-> ""]
\* variant: the credential check is left out
keyMissing_Never(configured) == FALSE
\* !process.env.GEMINI_API_KEY
keyMissing(configured) == ~configured
\* variant: the report branch does not test the report identifier
missingReportId_Never(reportId) == FALSE
\* !reportId
missingReportId(reportId) == reportId = NoReportId
\* the early return of chat when no credential is configured
noKeyResult == [kind |-> "return", reply |-> NoKeyReply, intent |-> "ERROR", sources |-> <<>>, error |-> ""]
\* the early return of the report branch when there is no report identifier
noReportResult(intentTag) ==
  [kind |-> "return", reply |-> NoReportReply, intent |-> intentTag, sources |-> <<>>, error |-> ""]
\* variant: chat's catch replies with the message of the error
catchReply_Raw(error) == error
\* the reply chat's catch substitutes for a raised error
catchReply(error) == ApologyReply
\* variant: chat has no catch, a raised error leaves chat
chatFinish_Rethrow(handled, intentTag, srcs) ==
  IF handled.kind = "return"
    THEN [kind |-> "return", reply |-> handled.reply, intent |-> intentTag, sources |-> srcs, error |-> ""]
    ELSE [kind |-> "throw", reply |-> "", intent |-> intentTag, sources |-> <<>>,
          error |-> handled.error]
\* variant: chat returns no sources
chatFinish_NoSources(handled, intentTag, srcs) ==
  IF handled.kind = "return"
    THEN [kind |-> "return", reply |-> handled.reply, intent |-> intentTag, sources |-> <<>>, error |-> ""]
    ELSE [kind |-> "return", reply |-> ApologyReply, intent |-> intentTag,
          sources |-> <<>>, error |-> ""]
\* the end of chat after a handler returned or raised: handled is the handler's
\* outcome and srcs the sources the handler returned
chatFinish(handled, intentTag, srcs) ==
  IF handled.kind = "return"
    THEN [kind |-> "return", reply |-> handled.reply, intent |-> intentTag, sources |-> srcs, error |-> ""]
    ELSE [kind |-> "return", reply |-> catchReply(handled.error), intent |-> intentTag,
          sources |-> <<>>, error |-> ""]
\* the handler state chat enters for an intent
handlerState(intentTag) ==
  IF intentTag = "REPORT_INTENT" THEN "REPORT_HANDLING"
  ELSE IF intentTag = "WEBSITE_CONCEPT_INTENT" THEN "CONCEPT_HANDLING"
  ELSE "GENERAL_HANDLING"
\* variant: chat goes back to its dispatch when a handler raised
afterHandler_Retry(handled) == IF handled.kind = "throw" THEN "INTENT_DETECTED" ELSE "DONE"
\* the state chat moves to when a handler has returned or raised: chat returns
afterHandler(handled) == "DONE"

\* ---- routes/chat.js ----
\* !message
isFalsy(j) == j.t = "undefined" \/ (j.t = "string" /\ j.v = "")
\* the guard of the 400 reply, !message || !message.trim(), for a message with a trim method
messageMissing(j) == isFalsy(j) \/ trim(Chars[j.v]) = <<>>
\* what the endpoint does with a body before it calls chat
routeCheck(body) ==
  IF isFalsy(body.message) THEN "reject"
  ELSE IF body.message.t # "string" THEN "throw"
  ELSE IF messageMissing(body.message) THEN "reject"
  ELSE "chat"
NoResponse == [status |-> 0, success |-> FALSE, error |-> "", hasError |-> FALSE,
               reply |-> "", intent |-> "none", sources |-> <<>>]
rejectResponse == [NoResponse EXCEPT !.status = 400, !.error = MessageRequired, !.hasError = TRUE]
\* the catch of the endpoint: error.message || 'Chat failed'
errorResponse(message) ==
  [NoResponse EXCEPT !.status = 500, !.hasError = TRUE,
                     !.error = IF message = "" THEN ChatFailed ELSE message]
okResponse(result) ==
  [NoResponse EXCEPT !.status = 200, !.success = TRUE, !.reply = result.reply,
                     !.intent = result.intent, !.sources = result.sources]
\* the response of the endpoint once chat has returned or raised
routeFinish(result) ==
  IF result.kind = "return" THEN okResponse(result) ELSE errorResponse(result.error)

\* ---- Chatbot widget: handleSend ----
\* the text the widget's catch shows for a failed request; resp.status = 0 is a
\* request that got no response
widgetErrorText(resp) ==
  IF resp.status # 0 /\ resp.hasError /\ resp.error # "" THEN resp.error
  ELSE IF resp.status = 0 THEN WidgetNoServer
  ELSE WidgetGenericError
\* variant: only the new message is sent as history
sentHistory_OnlyNew(shown, userMsg) == << userMsg >>
\* the history handleSend passes to sendChatMessage: [...messages, userMsg]
sentHistory(shown, userMsg) == Append(shown, userMsg)
\* the message the widget appends when the request settles
widgetSettle(resp) ==
  IF resp.status = 200
    THEN ChatMessage("assistant", resp.reply, resp.intent, resp.sources)
    ELSE ChatMessage("assistant", widgetErrorText(resp), "ERROR", <<>>)


\* ---- State ----
VARIABLES
  client,        \* who drives the run: the widget, a raw HTTP client, or verify_chat.js
  hasKey,        \* process.env.GEMINI_API_KEY is configured
  propReportId,  \* the reportId prop of the widget
  messages,      \* widget state: the message list
  isLoading,     \* widget state
  hasInteracted, \* widget state
  sends,         \* widget: requests dispatched so far
  pc,            \* where the request in flight is: idle, route, chat, respond
  body,          \* the body of the request at the endpoint
  resp,          \* the response of the endpoint
  args,          \* the arguments of the chat call
  state,         \* the orchestrator state of the chat call
  visited,       \* the orchestrator states the chat call has been in, in order
  intent,        \* chat's local: the detected intent
  result,        \* what the chat call returned or raised
  fetchPending,  \* a Report.findById is awaited
  modelPending,  \* a generateContent is awaited
  modelCall,     \* the system instruction and contents of the model call
  fetchOutcome,  \* what the store answered in this chat call
  gatewayOutcome,\* what the vendor answered in this chat call
  chatCalls,     \* calls of chat by the request in flight
  fetchCalls,    \* calls of Report.findById by the chat call
  gatewayCalls,  \* calls of generateContent by the chat call
  unit,          \* a function of the service applied on its own: its input and result
  chatbot,       \* the widget between renders: the input state, the values the
                 \* handlers of the current render read, the requests in flight
  server         \* chat calls in flight at once: the call that is executing, and
                 \* the locals of every call as it last left them

vars ==
  << client, hasKey, propReportId, messages, isLoading, hasInteracted, sends, pc, body,
     resp, args, state, visited, intent, result, fetchPending, modelPending, modelCall,
     fetchOutcome, gatewayOutcome, chatCalls, fetchCalls, gatewayCalls, unit, chatbot,
     server >>

widgetVars == << messages, isLoading, hasInteracted, sends >>
envVars == << client, hasKey, propReportId, unit, chatbot, server >>
chatVars ==
  << args, state, visited, intent, result, fetchPending, modelPending, modelCall,
     fetchOutcome, gatewayOutcome, fetchCalls, gatewayCalls >>

NoBody == [reportId |-> NoReportId, message |-> JsonUndefined, history |-> <<>>]
NoArgs == [reportId |-> NoReportId, userMessage |-> "", chatHistory |-> <<>>]
NoCall == [systemInstruction |-> "none", contents |-> <<>>]

\* the chat call's state before chat is entered
ChatIdle ==
  /\ args = NoArgs /\ state = "NONE" /\ visited = <<>> /\ intent = "none"
  /\ result = NoResult /\ fetchPending = FALSE /\ modelPending = FALSE
  /\ modelCall = NoCall /\ fetchOutcome = NoFetch /\ gatewayOutcome = NoGateway
  /\ fetchCalls = 0 /\ gatewayCalls = 0

\* the result of a function applied on its own, before it is applied
NoOut == [kind |-> "none", intent |-> "none", confidence |-> 0, sources |-> <<>>, text |-> <<>>,
          fetches |-> 0]
NoUnit == [input |-> "none", fn |-> "none", message |-> <<>>, hasReportId |-> FALSE,
           fetch |-> NoFetch, out |-> NoOut]

\* the widget as mounted: the useState initial values (prompts.js 240-244), rendered
ChatbotMounted ==
  [input |-> "",
   rendered |-> [input |-> "", messages |-> <<>>, isLoading |-> FALSE, hasInteracted |-> FALSE],
   flights |-> <<>>]

\* the calls of chat the process serves at once
CallIds == {"first", "second"}
\* the locals of a chat call that has not been entered
NoFrame ==
  [args |-> NoArgs, state |-> "NONE", visited |-> <<>>, intent |-> "none", result |-> NoResult,
   fetchPending |-> FALSE, modelPending |-> FALSE, modelCall |-> NoCall,
   fetchOutcome |-> NoFetch, gatewayOutcome |-> NoGateway, fetchCalls |-> 0, gatewayCalls |-> 0]
\* no call of chat has been entered
ServerIdle == [running |-> "first", frames |-> [c \in CallIds |-> NoFrame]]

\* nothing has been sent and no request is in flight
Quiet ==
  /\ messages = <<>> /\ isLoading = FALSE /\ hasInteracted = FALSE /\ sends = 0
  /\ pc = "idle" /\ body = NoBody /\ resp = NoResponse /\ chatCalls = 0
  /\ ChatIdle

Init ==
  /\ client \in {"widget", "api", "script"}
  /\ hasKey \in BOOLEAN
  /\ propReportId \in ReportIds
  /\ (client # "widget" => propReportId = NoReportId)
  /\ unit = NoUnit /\ chatbot = ChatbotMounted /\ server = ServerIdle
  /\ Quiet

\* entering chat(reportId, userMessage, chatHistory): a fresh call
EnterChat(reportId, userMessage, chatHistory) ==
  /\ args' = [reportId |-> reportId, userMessage |-> userMessage, chatHistory |-> chatHistory]
  /\ state' = "START" /\ visited' = <<"START">> /\ intent' = "none"
  /\ result' = NoResult /\ fetchPending' = FALSE /\ modelPending' = FALSE
  /\ modelCall' = NoCall /\ fetchOutcome' = NoFetch /\ gatewayOutcome' = NoGateway
  /\ fetchCalls' = 0 /\ gatewayCalls' = 0

\* a new request leaves nothing of the one before it
ClearChat ==
  /\ args' = NoArgs /\ state' = "NONE" /\ visited' = <<>> /\ intent' = "none"
  /\ result' = NoResult /\ fetchPending' = FALSE /\ modelPending' = FALSE
  /\ modelCall' = NoCall /\ fetchOutcome' = NoFetch /\ gatewayOutcome' = NoGateway
  /\ fetchCalls' = 0 /\ gatewayCalls' = 0

\* ---- Chatbot widget ----
\* handleSend(text) up to its await: raw is the text given (a suggestion) or the input
WidgetSend(raw) ==
  /\ client = "widget" /\ pc = "idle" /\ sends < MaxTurns
  /\ LET messageText == Str(trim(Chars[raw]))
         userMsg == UserMessage(messageText)
     IN  IF messageText = "" \/ isLoading
           THEN UNCHANGED vars
           ELSE /\ hasInteracted' = TRUE
                /\ messages' = Append(messages, userMsg)
                /\ isLoading' = TRUE
                /\ sends' = sends + 1
                /\ body' = [reportId |-> propReportId, message |-> JsonString(messageText),
                            history |-> sentHistory(messages, userMsg)]
                /\ resp' = NoResponse /\ chatCalls' = 0
                /\ pc' = "route"
                /\ ClearChat
                /\ UNCHANGED envVars

\* the input box, the send button and the Enter key
WidgetInputs == {"What is LCP?", "  hii ", "fix issues", "   "}
WidgetType == \E raw \in WidgetInputs : WidgetSend(raw)

\* a suggestion button, shown only before the first interaction
WidgetSuggest ==
  /\ ~hasInteracted /\ Len(messages) = 0
  /\ \E n \in 1..Len(SUGGESTED_QUESTIONS) : WidgetSend(SUGGESTED_QUESTIONS[n])

\* the request gets no response: handleSend's catch, then its finally
WidgetNoResponseAt ==
  /\ client = "widget" /\ pc = "route"
  /\ messages' = Append(messages, widgetSettle(NoResponse))
  /\ isLoading' = FALSE
  /\ pc' = "idle"
  /\ UNCHANGED << envVars, hasInteracted, sends, body, resp, chatCalls, chatVars >>

\* the response arrives: the rest of handleSend's try or its catch, then its finally
WidgetReceive ==
  /\ client = "widget" /\ pc = "respond"
  /\ messages' = Append(messages, widgetSettle(resp))
  /\ isLoading' = FALSE
  /\ pc' = "idle"
  /\ UNCHANGED << envVars, hasInteracted, sends, body, resp, chatCalls, chatVars >>

\* ---- A raw HTTP client of POST /api/chat ----
ApiPost ==
  /\ client = "api" /\ pc = "idle"
  /\ \E rid \in ReportIds, m \in BodyMessages, n \in 0..MaxHistory :
        body' = [reportId |-> rid, message |-> m, history |-> SuppliedHistory(n)]
  /\ resp' = NoResponse /\ chatCalls' = 0
  /\ pc' = "route"
  /\ ClearChat
  /\ UNCHANGED << envVars, widgetVars >>

ApiReceive ==
  /\ client = "api" /\ pc = "respond"
  /\ pc' = "idle"
  /\ UNCHANGED << envVars, widgetVars, body, resp, chatCalls, chatVars >>

\* ---- verify_chat.js: chat(null, message), the history left to its default ----
VerifyMessages == {"hii", "What is LCP?", "Why is my score low?"}
ScriptChat ==
  /\ client = "script" /\ pc = "idle"
  /\ \E m \in VerifyMessages : EnterChat(NoReportId, m, <<>>)
  /\ chatCalls' = 1
  /\ pc' = "chat"
  /\ UNCHANGED << envVars, widgetVars, body, resp >>

ScriptReceive ==
  /\ client = "script" /\ pc = "chat" /\ state = "DONE"
  /\ pc' = "idle"
  /\ UNCHANGED << envVars, widgetVars, body, resp, chatCalls, chatVars >>

\* ---- routes/chat.js: router.post('/chat') ----
\* the 400 reply for a missing message
RouteReject ==
  /\ pc = "route" /\ routeCheck(body) = "reject"
  /\ resp' = rejectResponse
  /\ pc' = "respond"
  /\ UNCHANGED << envVars, widgetVars, body, chatCalls, chatVars >>

\* message.trim() raises, and the endpoint's catch answers 500
RouteThrow ==
  /\ pc = "route" /\ routeCheck(body) = "throw"
  /\ resp' = errorResponse(TrimTypeError)
  /\ pc' = "respond"
  /\ UNCHANGED << envVars, widgetVars, body, chatCalls, chatVars >>

\* chat(reportId, message.trim(), history)
RouteCallChat ==
  /\ pc = "route" /\ routeCheck(body) = "chat"
  /\ EnterChat(body.reportId, Str(trim(Chars[body.message.v])), body.history)
  /\ chatCalls' = chatCalls + 1
  /\ pc' = "chat"
  /\ UNCHANGED << envVars, widgetVars, body, resp >>

\* chat has settled: res.json, or the endpoint's catch
RouteRespond ==
  /\ client \in {"widget", "api"} /\ pc = "chat" /\ state = "DONE"
  /\ resp' = routeFinish(result)
  /\ pc' = "respond"
  /\ UNCHANGED << envVars, widgetVars, body, chatCalls, chatVars >>

\* ---- chatService.js: chat ----
MoveTo(s) == state' = s /\ visited' = Append(visited, s)

\* no credential: the early return
ChatNoKey ==
  /\ pc = "chat" /\ state = "START" /\ keyMissing(hasKey)
  /\ result' = noKeyResult
  /\ MoveTo("DONE")
  /\ UNCHANGED << envVars, widgetVars, pc, body, resp, chatCalls, args, intent, fetchPending,
                  modelPending, modelCall, fetchOutcome, gatewayOutcome, fetchCalls, gatewayCalls >>

\* Step 1: detectIntent(userMessage, !!reportId)
ChatDetectIntent ==
  /\ pc = "chat" /\ state = "START" /\ ~keyMissing(hasKey)
  /\ intent' = detectIntent(args.userMessage, args.reportId # NoReportId).intent
  /\ MoveTo("INTENT_DETECTED")
  /\ UNCHANGED << envVars, widgetVars, pc, body, resp, chatCalls, args, result, fetchPending,
                  modelPending, modelCall, fetchOutcome, gatewayOutcome, fetchCalls, gatewayCalls >>

\* Step 2: the branch on the intent
ChatDispatch ==
  /\ pc = "chat" /\ state = "INTENT_DETECTED"
  /\ MoveTo(handlerState(intent))
  /\ UNCHANGED << envVars, widgetVars, pc, body, resp, chatCalls, args, intent, result,
                  fetchPending, modelPending, modelCall, fetchOutcome, gatewayOutcome,
                  fetchCalls, gatewayCalls >>

\* a handler is at its beginning
AtHandler(s) ==
  /\ pc = "chat" /\ state = s
  /\ ~fetchPending /\ ~modelPending /\ fetchOutcome = NoFetch /\ gatewayOutcome = NoGateway

\* Report.findById is called and awaited
IssueFetch ==
  /\ fetchPending' = TRUE
  /\ fetchCalls' = fetchCalls + 1

\* callGemini up to its await: the contents are built and generateContent is called
IssueModelCall(systemInstruction, userPrompt) ==
  /\ modelCall' = [systemInstruction |-> systemInstruction,
                   contents |-> geminiContents(userPrompt, args.chatHistory)]
  /\ modelPending' = TRUE
  /\ gatewayCalls' = gatewayCalls + 1

\* chat returns (or raises) after a handler has returned or raised
FinishChat(handled, srcs) ==
  /\ result' = chatFinish(handled, intent, srcs)
  /\ MoveTo(afterHandler(handled))

\* REPORT_INTENT with no report identifier: the fixed reply
ReportNoId ==
  /\ AtHandler("REPORT_HANDLING") /\ missingReportId(args.reportId)
  /\ result' = noReportResult(intent)
  /\ MoveTo("DONE")
  /\ UNCHANGED << envVars, widgetVars, pc, body, resp, chatCalls, args, intent, fetchPending,
                  modelPending, modelCall, fetchOutcome, gatewayOutcome, fetchCalls, gatewayCalls >>

\* handleReportIntent: buildReportContext awaits the store
ReportFetch ==
  /\ AtHandler("REPORT_HANDLING") /\ ~missingReportId(args.reportId)
  /\ IssueFetch
  /\ UNCHANGED << envVars, widgetVars, pc, body, resp, chatCalls, args, state, visited, intent,
                  result, modelPending, modelCall, fetchOutcome, gatewayOutcome, gatewayCalls >>

\* handleReportIntent resumes: the context is built and the model is called, or
\* buildReportContext raises and chat's catch ends the call
ReportFetched ==
  /\ pc = "chat" /\ state = "REPORT_HANDLING" /\ fetchPending
  /\ \E o \in FetchOutcomes :
       /\ fetchOutcome' = o
       /\ fetchPending' = FALSE
       /\ IF buildReportContext(o).kind = "return"
            THEN /\ IssueModelCall("RAG_MODE_PROMPT",
                                   reportPrompt(buildReportContext(o).fullContext, args.userMessage))
                 /\ UNCHANGED << state, visited, result >>
            ELSE /\ FinishChat(buildReportContext(o), <<>>)
                 /\ UNCHANGED << modelPending, modelCall, gatewayCalls >>
  /\ UNCHANGED << envVars, widgetVars, pc, body, resp, chatCalls, args, intent,
                  gatewayOutcome, fetchCalls >>

\* handleConceptIntent with a report identifier: buildReportSummary awaits the store
ConceptFetch ==
  /\ AtHandler("CONCEPT_HANDLING") /\ args.reportId # NoReportId
  /\ IssueFetch
  /\ UNCHANGED << envVars, widgetVars, pc, body, resp, chatCalls, args, state, visited, intent,
                  result, modelPending, modelCall, fetchOutcome, gatewayOutcome, gatewayCalls >>

\* handleConceptIntent resumes with the summary (empty on any failure)
ConceptFetched ==
  /\ pc = "chat" /\ state = "CONCEPT_HANDLING" /\ fetchPending
  /\ \E o \in FetchOutcomes :
       /\ fetchOutcome' = o
       /\ fetchPending' = FALSE
       /\ IssueModelCall("HYBRID_MODE_PROMPT", conceptPrompt(buildReportSummary(o), args.userMessage))
  /\ UNCHANGED << envVars, widgetVars, pc, body, resp, chatCalls, args, state, visited, intent,
                  result, gatewayOutcome, fetchCalls >>

\* handleConceptIntent without a report identifier
ConceptCall ==
  /\ AtHandler("CONCEPT_HANDLING") /\ args.reportId = NoReportId
  /\ IssueModelCall("HYBRID_MODE_PROMPT", conceptPrompt(<<>>, args.userMessage))
  /\ UNCHANGED << envVars, widgetVars, pc, body, resp, chatCalls, args, state, visited, intent,
                  result, fetchPending, fetchOutcome, gatewayOutcome, fetchCalls >>

\* handleGeneralIntent
GeneralCall ==
  /\ AtHandler("GENERAL_HANDLING")
  /\ IssueModelCall("OPEN_MODE_PROMPT", generalPrompt(args.userMessage))
  /\ UNCHANGED << envVars, widgetVars, pc, body, resp, chatCalls, args, state, visited, intent,
                  result, fetchPending, fetchOutcome, gatewayOutcome, fetchCalls >>

\* the vendor answers: callGemini returns or raises, the handler returns or raises
\* with it, and chat returns. handleReportIntent has computed detectSources(userMessage)
\* before the call and returns it with the reply.
GatewayReturn ==
  /\ pc = "chat" /\ modelPending
  /\ \E o \in GatewayOutcomes :
       /\ gatewayOutcome' = o
       /\ modelPending' = FALSE
       /\ FinishChat(callGemini(o),
                     IF state = "REPORT_HANDLING" THEN detectSources(args.userMessage) ELSE <<>>)
  /\ UNCHANGED << envVars, widgetVars, pc, body, resp, chatCalls, args, intent, fetchPending,
                  modelCall, fetchOutcome, fetchCalls, gatewayCalls >>

Next ==
  \/ WidgetType
  \/ WidgetSuggest
  \/ WidgetNoResponseAt
  \/ WidgetReceive
  \/ ApiPost
  \/ ApiReceive
  \/ ScriptChat
  \/ ScriptReceive
  \/ RouteReject
  \/ RouteThrow
  \/ RouteCallChat
  \/ RouteRespond
  \/ ChatNoKey
  \/ ChatDetectIntent
  \/ ChatDispatch
  \/ ReportNoId
  \/ ReportFetch
  \/ ReportFetched
  \/ ConceptFetch
  \/ ConceptFetched
  \/ ConceptCall
  \/ GeneralCall
  \/ GatewayReturn

Spec == Init /\ [][Next]_vars

\* ---- The functions of the service, each applied on its own ----
\* the messages: what users type in the flows above, and every message composed
\* of an opener and up to MaxWords words
UnitMessages ==
  {Chars[m] : m \in TypedMessages} \cup {Chars[SUGGESTED_QUESTIONS[n]] : n \in 1..Len(SUGGESTED_QUESTIONS)}
  \cup { Chars[MessageOpeners[o]]
           \o joinWith([i \in 1..Len(ws) |-> Chars[MessageWords[ws[i]]]], " ") :
         o \in 1..Len(MessageOpeners),
         ws \in UNION {[1..n -> 1..Len(MessageWords)] : n \in 0..MaxWords} }
\* the documents: every set of present modules, with and without insights and
\* array entries, with no field missing, one field missing, or every field missing
UnitReports ==
  { MakeReport(present, insights, lists, missing) :
      present \in SUBSET {ModuleNames[n] : n \in 1..Len(ModuleNames)},
      insights \in BOOLEAN, lists \in BOOLEAN,
      missing \in {{}, FieldNames} \cup {{f} : f \in FieldNames} }
UnitFetches ==
  {[kind |-> "doc", doc |-> d, error |-> ""] : d \in UnitReports}
  \cup {[kind |-> "null", doc |-> DocBare, error |-> ""],
        [kind |-> "error", doc |-> DocBare, error |-> ErrStore]}

InitUnit ==
  /\ client = "unit" /\ hasKey = TRUE /\ propReportId = NoReportId /\ chatbot = ChatbotMounted
  /\ server = ServerIdle
  /\ \/ \E m \in UnitMessages : unit = [NoUnit EXCEPT !.input = "message", !.message = m]
     \/ \E f \in UnitFetches : unit = [NoUnit EXCEPT !.input = "fetch", !.fetch = f]
  /\ Quiet

UnitRest ==
  << hasKey, client, propReportId, chatbot, server, widgetVars, pc, body, resp, chatCalls, chatVars >>

\* detectIntent(message, hasReportId)
UnitDetectIntent ==
  /\ client = "unit" /\ unit.input = "message" /\ unit.fn = "none"
  /\ \E h \in BOOLEAN :
       unit' = [unit EXCEPT !.fn = "detectIntent", !.hasReportId = h,
                            !.out = [NoOut EXCEPT !.kind = "return",
                                       !.intent = detectIntentOf(unit.message, h).intent,
                                       !.confidence = detectIntentOf(unit.message, h).confidence]]
  /\ UNCHANGED UnitRest

\* detectSources(message)
UnitDetectSources ==
  /\ client = "unit" /\ unit.input = "message" /\ unit.fn = "none"
  /\ unit' = [unit EXCEPT !.fn = "detectSources", !.hasReportId = FALSE,
                           !.out = [NoOut EXCEPT !.kind = "return",
                                      !.sources = detectSourcesOf(unit.message)]]
  /\ UNCHANGED UnitRest

\* buildReportContext(reportId), the store answering unit.fetch
UnitBuildContext ==
  /\ client = "unit" /\ unit.input = "fetch" /\ unit.fn = "none"
  /\ unit' = [unit EXCEPT !.fn = "buildReportContext",
                           !.out = [NoOut EXCEPT !.kind = buildReportContext(unit.fetch).kind,
                                      !.text = buildReportContext(unit.fetch).fullContext,
                                      !.fetches = 1]]
  /\ UNCHANGED UnitRest

\* buildReportSummary(reportId), the store answering unit.fetch if it is asked
UnitBuildSummary ==
  /\ client = "unit" /\ unit.input = "fetch" /\ unit.fn = "none"
  /\ \E rid \in ReportIds :
       unit' = [unit EXCEPT !.fn = "buildReportSummary", !.hasReportId = rid # NoReportId,
                            !.out = [NoOut EXCEPT !.kind = "return",
                                       !.text = summaryFor(rid, unit.fetch).text,
                                       !.fetches = summaryFor(rid, unit.fetch).fetches]]
  /\ UNCHANGED UnitRest

NextUnit ==
  \/ UnitDetectIntent
  \/ UnitDetectSources
  \/ UnitBuildContext
  \/ UnitBuildSummary

SpecUnit == InitUnit /\ [][NextUnit]_vars


\* ---- The widget and its renders ----
\* A handler reads messages, input and isLoading of the render it was created in; a
\* state update shows in the handlers of the next render. chatbot.rendered holds the
\* values of the current render; messages, isLoading, hasInteracted and chatbot.input
\* are the state, updates applied.
InitChatbot ==
  /\ client = "chatbot" /\ hasKey = TRUE /\ propReportId \in ReportIds
  /\ unit = NoUnit /\ chatbot = ChatbotMounted /\ server = ServerIdle
  /\ Quiet

ChatbotRest == << client, hasKey, propReportId, unit, server, pc, body, resp, chatCalls, chatVars >>

\* the responses sendChatMessage settles with: a reply, a 500, no response
ChatbotResponses ==
  { okResponse([NoResult EXCEPT !.kind = "return", !.reply = ModelText,
                                !.intent = "GENERAL_INTENT"]),
    errorResponse(""), NoResponse }

\* onChange of the input: setInput(e.target.value); the input is disabled while
\* the render's isLoading is true
ChatbotType ==
  /\ client = "chatbot" /\ ~chatbot.rendered.isLoading
  /\ \E raw \in WidgetInputs :
       /\ raw # chatbot.input
       /\ chatbot' = [chatbot EXCEPT !.input = raw]
  /\ UNCHANGED << ChatbotRest, widgetVars >>

\* the component renders again: its handlers read the state as it is now
ChatbotRender ==
  /\ client = "chatbot"
  /\ chatbot.rendered # [input |-> chatbot.input, messages |-> messages,
                         isLoading |-> isLoading, hasInteracted |-> hasInteracted]
  /\ chatbot' = [chatbot EXCEPT !.rendered = [input |-> chatbot.input, messages |-> messages,
                                              isLoading |-> isLoading,
                                              hasInteracted |-> hasInteracted]]
  /\ UNCHANGED << ChatbotRest, widgetVars >>

\* handleSend(text) up to its await, as created by the current render; text is ""
\* when no text is passed (text || input)
handleSend(text) ==
  /\ client = "chatbot" /\ sends < MaxTurns
  /\ LET shown == chatbot.rendered
         messageText == Str(trim(Chars[IF text # "" THEN text ELSE shown.input]))
         userMsg == UserMessage(messageText)
     IN  IF messageText = "" \/ shown.isLoading
           THEN UNCHANGED vars
           ELSE /\ hasInteracted' = TRUE
                /\ messages' = Append(messages, userMsg)
                /\ isLoading' = TRUE
                /\ sends' = sends + 1
                /\ chatbot' = [chatbot EXCEPT
                                 !.input = "",
                                 !.flights = Append(@, [reportId |-> propReportId,
                                                        message |-> messageText,
                                                        history |-> sentHistory(shown.messages, userMsg)])]
                /\ UNCHANGED ChatbotRest

\* the send button, disabled when the render's input is blank or its isLoading is true
ChatbotSendClick ==
  /\ trim(Chars[chatbot.rendered.input]) # <<>> /\ ~chatbot.rendered.isLoading
  /\ handleSend("")

\* handleKeyDown with Enter in the input, disabled when the render's isLoading is true
handleKeyDown ==
  /\ ~chatbot.rendered.isLoading
  /\ handleSend("")

\* a suggestion button of the welcome block, which the render shows when its
\* hasInteracted is false and its message list is empty
ChatbotSuggestionClick ==
  /\ ~chatbot.rendered.hasInteracted /\ Len(chatbot.rendered.messages) = 0
  /\ \E n \in 1..Len(SUGGESTED_QUESTIONS) : handleSend(SUGGESTED_QUESTIONS[n])

\* a request in flight settles: the rest of that handleSend's try or its catch,
\* then its finally
ChatbotSettle ==
  /\ client = "chatbot"
  /\ \E i \in 1..Len(chatbot.flights), r \in ChatbotResponses :
       /\ messages' = Append(messages, widgetSettle(r))
       /\ isLoading' = FALSE
       /\ chatbot' = [chatbot EXCEPT
                        !.flights = [k \in 1..(Len(@) - 1) |-> IF k < i THEN @[k] ELSE @[k + 1]]]
  /\ UNCHANGED << ChatbotRest, hasInteracted, sends >>

NextChatbot ==
  \/ ChatbotType
  \/ ChatbotRender
  \/ ChatbotSendClick
  \/ handleKeyDown
  \/ ChatbotSuggestionClick
  \/ ChatbotSettle

SpecChatbot == InitChatbot /\ [][NextChatbot]_vars


\* ---- chat, called again while calls are awaiting ----
\* The process runs one call at a time and leaves it only where the call awaits
\* (Report.findById, generateContent) or has returned. The variables of the chat
\* call hold the locals of the call that is executing; server.frames holds the
\* locals of the others as they left them.
InitServer ==
  /\ client = "server" /\ hasKey \in BOOLEAN /\ propReportId = NoReportId
  /\ unit = NoUnit /\ chatbot = ChatbotMounted /\ server = ServerIdle
  /\ Quiet

\* the locals of the call that is executing
Frame ==
  [args |-> args, state |-> state, visited |-> visited, intent |-> intent, result |-> result,
   fetchPending |-> fetchPending, modelPending |-> modelPending, modelCall |-> modelCall,
   fetchOutcome |-> fetchOutcome, gatewayOutcome |-> gatewayOutcome,
   fetchCalls |-> fetchCalls, gatewayCalls |-> gatewayCalls]

\* the arguments chat is called with
ServerRequests ==
  {[reportId |-> r, userMessage |-> m, chatHistory |-> h] :
     r \in ReportIds, m \in VerifyMessages, h \in {<<>>, SuppliedHistory(MaxTurns)}}

\* chat(reportId, userMessage, chatHistory) is entered
ServerCall ==
  /\ client = "server" /\ state = "NONE"
  /\ \E a \in ServerRequests : EnterChat(a.reportId, a.userMessage, a.chatHistory)
  /\ pc' = "chat"
  /\ UNCHANGED << envVars, widgetVars, body, resp, chatCalls >>

\* variant: intent is a variable of the module, which every call reads and writes
resumed_SharedIntent(frame, left) == [frame EXCEPT !.intent = left.intent]
\* the locals a call finds when it resumes: its own, whatever the call that
\* executed before it (left) has done
resumed(frame, left) == frame

\* the executing call awaits or has returned, and another call executes
ServerSwitch ==
  /\ client = "server"
  /\ state \in {"NONE", "DONE"} \/ fetchPending \/ modelPending
  /\ \E c \in CallIds \ {server.running} :
       LET f == resumed(server.frames[c], Frame)
       IN  /\ server' = [running |-> c, frames |-> [server.frames EXCEPT ![server.running] = Frame]]
           /\ args' = f.args /\ state' = f.state /\ visited' = f.visited
           /\ intent' = f.intent /\ result' = f.result
           /\ fetchPending' = f.fetchPending /\ modelPending' = f.modelPending
           /\ modelCall' = f.modelCall /\ fetchOutcome' = f.fetchOutcome
           /\ gatewayOutcome' = f.gatewayOutcome
           /\ fetchCalls' = f.fetchCalls /\ gatewayCalls' = f.gatewayCalls
  /\ UNCHANGED << client, hasKey, propReportId, unit, chatbot, widgetVars, pc, body, resp,
                  chatCalls >>

NextServer ==
  \/ ServerCall
  \/ ServerSwitch
  \/ ChatNoKey
  \/ ChatDetectIntent
  \/ ChatDispatch
  \/ ReportNoId
  \/ ReportFetch
  \/ ReportFetched
  \/ ConceptFetch
  \/ ConceptFetched
  \/ ConceptCall
  \/ GeneralCall
  \/ GatewayReturn

SpecServer == InitServer /\ [][NextServer]_vars


\* ---- Properties ----
Min(a, b) == IF a <= b THEN a ELSE b
HandlerStates == {"REPORT_HANDLING", "CONCEPT_HANDLING", "GENERAL_HANDLING"}
\* detectIntent on every message chat can be called with, computed once
ChatTexts == {Str(trim(Chars[m])) : m \in TypedMessages \cup VerifyMessages}
             \cup {SUGGESTED_QUESTIONS[n] : n \in 1..Len(SUGGESTED_QUESTIONS)}
IntentOf == [m \in ChatTexts, h \in BOOLEAN |-> detectIntent(m, h).intent]
\* the intent detectIntent gives the arguments of the chat call
DetectedIntent == IntentOf[args.userMessage, args.reportId # NoReportId]
\* the chat call has been in orchestrator state s
Visited(s) == \E i \in 1..Len(visited) : visited[i] = s
\* the vendor's error carries the marker of a credential error
KeyError(o) == o.kind = "error" /\ o.hasMessage /\ includes(Chars[o.text], Chars[ApiKeyMarker])
\* the vendor's error reports rate limiting
RateLimitError(o) == o.kind = "error" /\ o.hasMessage /\ includes(Chars[o.text], Chars[RateLimitMarker])
\* a handler of the chat call raised: buildReportContext found no document or its
\* fetch failed, or callGemini re-raised the vendor's error
HandlerRaised ==
  \/ Visited("REPORT_HANDLING") /\ fetchOutcome.kind \in {"null", "error"}
  \/ gatewayOutcome.kind = "error" /\ ~KeyError(gatewayOutcome)

\* C1: with a credential configured, a chat call without a report identifier whose
\* message is classified REPORT_INTENT returns the fixed "no report loaded" reply
\* with intent REPORT_INTENT and empty sources, whatever the history, and at no
\* point of the call is the store fetched or the model called.
C1_NoReportGuidance ==
  (state # "NONE" /\ hasKey /\ args.reportId = NoReportId
     /\ IntentOf[args.userMessage, FALSE] = "REPORT_INTENT")
  => /\ fetchCalls = 0 /\ gatewayCalls = 0 /\ ~fetchPending /\ ~modelPending
     /\ modelCall = NoCall
     /\ state = "DONE" =>
          /\ result.kind = "return" /\ result.reply = NoReportReply
          /\ result.intent = "REPORT_INTENT" /\ result.sources = <<>>
C1_Witness ==
  /\ state = "DONE" /\ hasKey /\ args.reportId = NoReportId
  /\ Visited("REPORT_HANDLING") /\ Len(args.chatHistory) > 0
  /\ result.reply = NoReportReply

\* C2: without a credential every chat call, whatever its report identifier,
\* message and history, returns the fixed configuration reply with intent ERROR
\* and empty sources, and at no point of the call is the store fetched or the
\* model called.
C2_NoCredential ==
  (state # "NONE" /\ ~hasKey)
  => /\ fetchCalls = 0 /\ gatewayCalls = 0 /\ ~fetchPending /\ ~modelPending
     /\ modelCall = NoCall
     /\ state = "DONE" =>
          /\ result.kind = "return" /\ result.reply = NoKeyReply
          /\ result.intent = "ERROR" /\ result.sources = <<>>
C2_Witness ==
  /\ state = "DONE" /\ ~hasKey /\ args.reportId # NoReportId
  /\ Len(args.chatHistory) > 0 /\ result.reply = NoKeyReply

\* C3: a chat call in which a handler raised does not raise: it returns the fixed
\* apology, with the intent detected for the message and with empty sources.
C3_HandlerErrorCaught ==
  (state = "DONE" /\ HandlerRaised)
  => /\ result.kind = "return" /\ result.reply = ApologyReply
     /\ result.intent = DetectedIntent /\ result.sources = <<>>
C3_Witness ==
  /\ state = "DONE" /\ Visited("REPORT_HANDLING") /\ fetchOutcome.kind = "null"
  /\ result.reply = ApologyReply /\ result.intent = "REPORT_INTENT"

\* C4: the turns of a model call are the last min(n, 10) entries of the supplied
\* history of length n, in their order, followed by the current user prompt as
\* the last turn; no model call carries more than 10 history entries.
C4_HistoryCapped ==
  modelCall # NoCall =>
    LET h == args.chatHistory
        n == Len(h)
        k == Min(n, 10)
        c == modelCall.contents
    IN  /\ Len(c) = k + 1
        /\ Len(c) - 1 <= 10
        /\ \A i \in 1..k :
             /\ c[i].parts = << h[n - k + i].text >>
             /\ c[i].role = (IF h[n - k + i].role = "assistant" THEN "model" ELSE "user")
        /\ c[k + 1].role = "user"
        /\ c[k + 1].parts[Len(c[k + 1].parts)] = args.userMessage
C4_Witness ==
  /\ modelCall # NoCall /\ Len(args.chatHistory) > 10
  /\ Len(modelCall.contents) = 11

\* C5 as stated: every chat call moves START -> INTENT_DETECTED -> one handler
\* state -> DONE, revisits no state and calls the model at most once.
C5_EveryCallFullPath ==
  /\ gatewayCalls <= 1
  /\ \A i, j \in 1..Len(visited) : i # j => visited[i] # visited[j]
  /\ state = "DONE" =>
       /\ Len(visited) = 4
       /\ visited[1] = "START" /\ visited[2] = "INTENT_DETECTED"
       /\ visited[3] \in HandlerStates /\ visited[4] = "DONE"

\* C5, amended: a chat call with a credential configured moves START ->
\* INTENT_DETECTED -> one handler state -> DONE, a call without a credential goes
\* from START straight to DONE; no call revisits a state, fetches the store more
\* than once or calls the model more than once, and once the call is DONE
\* nothing is outstanding, also after a failed fetch or a failed model call.
C5_SinglePass ==
  /\ gatewayCalls <= 1 /\ fetchCalls <= 1
  /\ \A i, j \in 1..Len(visited) : i # j => visited[i] # visited[j]
  /\ state # "NONE" =>
       /\ visited[1] = "START" /\ visited[Len(visited)] = state
       /\ Len(visited) >= 2 /\ hasKey => visited[2] = "INTENT_DETECTED"
       /\ Len(visited) >= 3 /\ hasKey => visited[3] \in HandlerStates
       /\ Len(visited) >= 4 => visited[4] = "DONE"
       /\ Len(visited) <= 4
  /\ state = "DONE" =>
       /\ ~fetchPending /\ ~modelPending
       /\ IF hasKey THEN Len(visited) = 4 ELSE visited = <<"START", "DONE">>
C5_Witness ==
  /\ state = "DONE" /\ hasKey /\ gatewayOutcome.kind = "error" /\ ~KeyError(gatewayOutcome)
  /\ gatewayCalls = 1 /\ fetchCalls = 1 /\ Len(visited) = 4

\* the message of the body is missing, empty or whitespace only
BlankMessage(m) ==
  \/ m.t = "undefined"
  \/ m.t = "string" /\ \A i \in 1..Len(Chars[m.v]) : Chars[m.v][i] \in WhiteSpace

\* C6: a request whose message is missing, empty or whitespace only is answered
\* 400 {success: false, error: "Message is required"} without a call of chat;
\* every other request calls chat exactly once, with the trimmed message.
C6_MessageValidated ==
  (pc = "respond" /\ resp.status # 0) =>
    IF BlankMessage(body.message)
      THEN /\ resp.status = 400 /\ ~resp.success /\ resp.error = MessageRequired
           /\ chatCalls = 0 /\ state = "NONE"
      ELSE /\ chatCalls = 1
           /\ body.message.t = "string"
           /\ Chars[args.userMessage] = trim(Chars[body.message.v])

\* the fixed sentences of the widget, the endpoint and the chat service
FixedSentences ==
  { NoKeyReply, NoReportReply, ApologyReply, InvalidKeyReply, MessageRequired,
    ChatFailed, WidgetGenericError, WidgetNoServer }
\* the request of the widget that has just settled met a failure
RequestFailed ==
  \/ chatCalls = 0
  \/ ~hasKey
  \/ result.kind # "return"
  \/ HandlerRaised
  \/ gatewayOutcome.kind = "error"
\* the text the widget shows for the request that has just settled
Shown == messages[Len(messages)].text

\* C7: whenever a request of the widget met a failure (no response, no
\* credential, no document, a store error, a vendor error), the text the widget
\* shows for it is one of the fixed sentences, never the message of an error.
C7_NoRawErrorShown ==
  (client = "widget" /\ pc = "idle" /\ messages # <<>> /\ RequestFailed)
  => /\ messages[Len(messages)].role = "assistant"
     /\ Shown \in FixedSentences
     /\ Shown \notin {ErrInvalidKey, ErrKeyEcho, ErrRateLimit, ErrOther, ErrStore,
                      ReportNotFound, TrimTypeError}
C7_Witness ==
  /\ client = "widget" /\ pc = "idle" /\ messages # <<>>
  /\ gatewayOutcome.kind = "error" /\ gatewayOutcome.text = ErrRateLimit
  /\ Shown = ApologyReply

\* C8: when the model call fails with an error that reports rate limiting, the
\* gateway does not re-raise but returns a fixed dedicated string, so that the
\* reply of the chat call is that string and not the generic apology.
C8_RateLimitMapped ==
  (state = "DONE" /\ RateLimitError(gatewayOutcome) /\ ~KeyError(gatewayOutcome))
  => /\ callGemini(gatewayOutcome).kind = "return"
     /\ result.reply # ApologyReply
     /\ result.reply # gatewayOutcome.text

\* C9: when the model call fails with an error that carries the credential
\* marker, the gateway returns the fixed invalid-key string instead of raising;
\* the reply contains neither the credential nor the vendor's error text, and
\* the result keeps the detected intent.
C9_InvalidKeyMapped ==
  (state = "DONE" /\ KeyError(gatewayOutcome))
  => /\ result.kind = "return" /\ result.reply = InvalidKeyReply
     /\ ~includes(Chars[result.reply], Chars[Credential])
     /\ ~includes(Chars[result.reply], Chars[gatewayOutcome.text])
     /\ result.intent = DetectedIntent
C9_Witness ==
  /\ state = "DONE" /\ gatewayOutcome.kind = "error" /\ gatewayOutcome.text = ErrKeyEcho
  /\ result.reply = InvalidKeyReply /\ result.intent = "WEBSITE_CONCEPT_INTENT"

\* C10: when the model call succeeds the reply is the completion's text, or a
\* fixed fallback string when the vendor returned no text; the reply of a
\* successful call is never empty.
C10_TextOrFallback ==
  (state = "DONE" /\ gatewayOutcome.kind = "text")
  => /\ result.kind = "return"
     /\ result.reply # ""
     /\ gatewayOutcome.text # NoText => result.reply = gatewayOutcome.text

\* ---- The classifier and the source detection, applied on their own ----
\* the text detectIntent works on
UnitText == trim(toLowerCase(unit.message))
\* the message holds an ownership pronoun and a subject keyword as whole words
OwnershipAndSubject ==
  /\ \E n \in 1..Len(OwnershipPronouns) : wordMatch(UnitText, Chars[OwnershipPronouns[n]])
  /\ \E n \in 1..Len(OwnershipSubjects) : wordMatch(UnitText, Chars[OwnershipSubjects[n]])

\* C11: a message holding an ownership pronoun (my, this, our, the) and a subject
\* keyword (site, website, page, report, score, audit, grade) as whole words is
\* classified REPORT_INTENT with confidence 0.95, with and without a report,
\* whatever concept openers and concept terms it also holds.
C11_OwnershipWins ==
  (unit.fn = "detectIntent" /\ OwnershipAndSubject) =>
     /\ unit.out.intent = "REPORT_INTENT"
     /\ unit.out.confidence = 95

\* a message with ownership that opens as a concept question, no report loaded
C11_Witness ==
  /\ unit.fn = "detectIntent" /\ OwnershipAndSubject /\ ~unit.hasReportId
  /\ conceptScore(UnitText) >= 3
  /\ unit.out = [NoOut EXCEPT !.kind = "return", !.intent = "REPORT_INTENT", !.confidence = 95]

\* C12: detectIntent decides in this order: report score >= 5 gives REPORT_INTENT
\* 0.95; else concept score >= 3 gives WEBSITE_CONCEPT_INTENT 0.9; else report
\* score >= 2 gives REPORT_INTENT 0.7 with a report and WEBSITE_CONCEPT_INTENT 0.6
\* without; else GENERAL_INTENT 0.5. "hii" is GENERAL_INTENT 0.5 and "What is LCP?"
\* without a report is WEBSITE_CONCEPT_INTENT.
C12_DecisionOrder ==
  unit.fn = "detectIntent" =>
    LET r == reportScore(UnitText, unit.hasReportId)
        c == conceptScore(UnitText)
        i == unit.out.intent
        q == unit.out.confidence
    IN  /\ r >= 5 => i = "REPORT_INTENT" /\ q = 95
        /\ (r < 5 /\ c >= 3) => i = "WEBSITE_CONCEPT_INTENT" /\ q = 90
        /\ (r < 5 /\ c < 3 /\ r >= 2 /\ unit.hasReportId) => i = "REPORT_INTENT" /\ q = 70
        /\ (r < 5 /\ c < 3 /\ r >= 2 /\ ~unit.hasReportId) => i = "WEBSITE_CONCEPT_INTENT" /\ q = 60
        /\ (r < 2 /\ c < 3) => i = "GENERAL_INTENT" /\ q = 50
        /\ unit.message = Chars["hii"] => i = "GENERAL_INTENT" /\ q = 50
        /\ (unit.message = Chars["What is LCP?"] /\ ~unit.hasReportId) => i = "WEBSITE_CONCEPT_INTENT"

\* a weak report signal with a report loaded: REPORT_INTENT 0.7
C12_Witness ==
  /\ unit.fn = "detectIntent" /\ unit.hasReportId
  /\ reportScore(UnitText, TRUE) \in 2..4 /\ conceptScore(UnitText) < 3
  /\ unit.out.intent = "REPORT_INTENT" /\ unit.out.confidence = 70

\* the tags of a detected source list
ModuleTags == {ModuleNames[n] : n \in 1..Len(ModuleNames)}
\* the module patterns of detectSources, by tag
ModuleWords ==
  [performance |-> PerformanceWords, seo |-> SeoWords, ux |-> UxWords, content |-> ContentWords]
\* the pattern of module tag t matches the message
ModuleMatches(t) ==
  \E n \in 1..Len(ModuleWords[t]) : wordMatch(toLowerCase(unit.message), Chars[ModuleWords[t][n]])
\* the place of a tag in the fixed order
TagRank(t) == CHOOSE n \in 1..Len(ModuleNames) : ModuleNames[n] = t

\* C13: detectSources returns exactly the module tags (performance, seo, ux,
\* content) whose pattern matches the message, each once and in that order, and
\* exactly <<"overview">> when none matches; the list is never empty and never
\* holds overview next to a module tag.
C13_SourcesExact ==
  unit.fn = "detectSources" =>
    LET srcs == unit.out.sources
    IN  /\ Len(srcs) >= 1
        /\ \A t \in ModuleTags : (\E i \in 1..Len(srcs) : srcs[i] = t) <=> ModuleMatches(t)
        /\ \A i \in 1..Len(srcs) : srcs[i] \in ModuleTags \cup {"overview"}
        /\ \A i, j \in 1..Len(srcs) :
              (i < j /\ srcs[i] \in ModuleTags /\ srcs[j] \in ModuleTags)
                 => TagRank(srcs[i]) < TagRank(srcs[j])
        /\ (\A t \in ModuleTags : ~ModuleMatches(t)) <=> srcs = <<"overview">>
        /\ (\E i \in 1..Len(srcs) : srcs[i] = "overview") => Len(srcs) = 1

\* the message about images, alt text and LCP yields performance and seo (and
\* content, for the word text)
C13_Witness ==
  /\ unit.fn = "detectSources"
  /\ unit.message = Chars["my images are missing alt text and LCP is slow"]
  /\ unit.out.sources = <<"performance", "seo", "content">>

\* ---- The summary of the concept handler ----
\* the user prompt of the model call
UserPrompt == modelCall.contents[Len(modelCall.contents)].parts
\* the store had no document for the summary, or its fetch failed
SummaryFailed == Visited("CONCEPT_HANDLING") /\ fetchOutcome.kind \in {"null", "error"}

\* C14: buildReportSummary never raises: it returns the empty text for a falsy
\* identifier (without a fetch), for a failed fetch and for no document; in a
\* concept request with a report identifier such a failure still leads to the
\* model call, whose prompt has no summary banner, and the model's text is the reply.
C14_SummaryNeverFails ==
  /\ unit.fn = "buildReportSummary" =>
       /\ unit.out.kind = "return"
       /\ ~unit.hasReportId => unit.out.text = <<>> /\ unit.out.fetches = 0
       /\ unit.fetch.kind \in {"null", "error"} => unit.out.text = <<>>
  /\ (Visited("CONCEPT_HANDLING") /\ args.reportId = NoReportId) => fetchCalls = 0
  /\ SummaryFailed =>
       /\ args.reportId # NoReportId /\ fetchCalls = 1
       /\ gatewayCalls = 1 /\ modelCall.systemInstruction = "HYBRID_MODE_PROMPT"
       /\ UserPrompt = << "User Question: ", args.userMessage >>
       /\ state \in {"CONCEPT_HANDLING", "DONE"}
       /\ (state = "DONE" /\ gatewayOutcome.kind = "text") =>
             result = [kind |-> "return", reply |-> gatewayOutcome.text,
                       intent |-> "WEBSITE_CONCEPT_INTENT", sources |-> <<>>, error |-> ""]

\* a concept request whose summary fetch raised, answered with the model's text
C14_Witness ==
  /\ SummaryFailed /\ fetchOutcome.kind = "error" /\ state = "DONE"
  /\ result.reply = ModelText

\* ---- The full context, read back ----
\* the section a header line opens, by the first segment of the line
SectionOfHeader ==
  (OverviewHeader :> "overview") @@ (ModuleHeaders.performance :> "performance")
  @@ (ModuleHeaders.seo :> "seo") @@ (ModuleHeaders.ux :> "ux")
  @@ (ModuleHeaders.content :> "content") @@ (InsightsHeader :> "ai-insights")
\* the sections of a text, in the order of their header lines
SectionsOf(text) ==
  LET IsHeader(segment) == segment \in DOMAIN SectionOfHeader
      headers == SelectSeq(text, IsHeader)
  IN  [i \in 1..Len(headers) |-> SectionOfHeader[headers[i]]]
\* buildReportContext has been applied to a document
ContextBuilt == unit.fn = "buildReportContext" /\ unit.fetch.kind = "doc"
\* the sections a document calls for
SectionsDue(doc) ==
  LET Held(t) == doc.modules[t].present
  IN  <<"overview">> \o SelectSeq(ModuleNames, Held)
      \o (IF doc.ai_insights.present THEN <<"ai-insights">> ELSE <<>>)

\* C15: the full context holds the overview section first and then exactly one
\* section for each module the document holds, in the order performance, seo, ux,
\* content, ai-insights, and no section for a module the document lacks.
C15_SectionsInOrder ==
  ContextBuilt =>
    /\ unit.out.kind = "return"
    /\ SectionsOf(unit.out.text) = SectionsDue(unit.fetch.doc)
    /\ unit.out.text[1] = OverviewHeader

\* a document with the seo and content modules only, and insights
C15_Witness ==
  /\ ContextBuilt
  /\ SectionsOf(unit.out.text) = <<"overview", "seo", "content", "ai-insights">>

\* the first segment of each metric line under "Key Metrics:", by module and field
MetricLabels ==
  [ performance |->
      [ lcp_s |-> "  - LCP (Largest Contentful Paint): ",
        cls |-> "  - CLS (Cumulative Layout Shift): ",
        fcp_s |-> "  - FCP (First Contentful Paint): ",
        ttfb_s |-> "  - TTFB (Time to First Byte): ",
        tbt_ms |-> "  - TBT (Total Blocking Time): ",
        total_js_kb |-> "  - Total JS Size: ",
        total_css_kb |-> "  - Total CSS Size: ",
        total_images_kb |-> "  - Total Image Size: ",
        total_requests |-> "  - Total Requests: " ],
    seo |->
      [ title_length |-> "  - Title Length: ",
        meta_description_length |-> "  - Meta Description Length: ",
        h1_count |-> "  - H1 Count: ",
        images_missing_alt_count |-> "  - Images Missing Alt Text: ",
        internal_links_count |-> "  - Internal Links: ",
        external_links_count |-> "  - External Links: " ],
    ux |->
      [ violations_count |-> "  - Total Violations: ",
        critical |-> "  - Critical Violations: ",
        serious |-> "  - Serious Violations: ",
        moderate |-> "  - Moderate Violations: ",
        minor |-> "  - Minor Violations: ",
        ctas_count |-> "  - Total CTAs: ",
        ctas_above_fold |-> "  - CTAs Above Fold: " ],
    content |->
      [ word_count |-> "  - Word Count: ",
        flesch_reading_ease |-> "  - Flesch Reading Ease: ",
        flesch_kincaid_grade |-> "  - Flesch-Kincaid Grade Level: " ] ]
\* the places of a segment in a text
PlacesOf(segment, text) == {i \in 1..Len(text) : text[i] = segment}

\* C20: for every module a document holds, each metric line of the module's
\* section is there once, and a metric whose field is missing or null is shown
\* as N/A, never left out and never shown as another value.
C20_MissingIsNA ==
  ContextBuilt =>
    \A t \in ModuleTags :
      unit.fetch.doc.modules[t].present =>
        \A f \in DOMAIN MetricLabels[t] :
          LET places == PlacesOf(MetricLabels[t][f], unit.out.text)
          IN  /\ Cardinality(places) = 1
              /\ unit.fetch.doc.modules[t][f] = Null =>
                   \A i \in places : unit.out.text[i + 1] = "N/A"

\* ---- The history from the widget to the model ----
\* the widget has a request in flight
InFlight == client = "widget" /\ pc # "idle"

C17_PriorTurnsOnly ==
  (client = "widget" /\ pc = "chat" /\ modelCall # NoCall) =>
    LET c == modelCall.contents
        prior == SubSeq(messages, 1, Len(messages) - 1)
        k == Min(Len(prior), HistoryLimit)
    IN  /\ Len(c) = k + 1
        /\ \A i \in 1..Min(k, Len(c) - 1) : c[i].parts = << prior[Len(prior) - k + i].text >>
        /\ c[Len(c)].role = "user"
        /\ c[Len(c)].parts[Len(c[Len(c)].parts)] = args.userMessage

\* ---- The two awaits of a request ----
\* C18: within one request the report fetch and the model call are never
\* outstanding together: the model call is issued only after the fetch has
\* completed, and in report handling a failed fetch means no model call.
C18_FetchThenCall ==
  /\ ~(fetchPending /\ modelPending)
  /\ fetchPending => (gatewayCalls = 0 /\ modelCall = NoCall /\ fetchOutcome = NoFetch)
  /\ (gatewayCalls > 0 /\ fetchCalls > 0) => fetchOutcome # NoFetch
  /\ (Visited("REPORT_HANDLING") /\ gatewayCalls > 0) => fetchOutcome.kind = "doc"
  /\ (Visited("REPORT_HANDLING") /\ fetchOutcome.kind \in {"null", "error"}) =>
        (gatewayCalls = 0 /\ modelCall = NoCall /\ ~modelPending)

\* a model call outstanding in report handling, issued after the fetch answered
C18_Witness ==
  /\ state = "REPORT_HANDLING" /\ modelPending /\ ~fetchPending
  /\ fetchCalls = 1 /\ fetchOutcome.kind = "doc" /\ gatewayCalls = 1

\* ---- The sources of a report answer ----
\* detectSources on every message chat can be called with, computed once
SourcesOf == [m \in ChatTexts |-> detectSources(m)]
\* a report request has ended after its model call was answered
ReportAnswered == Visited("REPORT_HANDLING") /\ state = "DONE" /\ gatewayOutcome # NoGateway
\* callGemini returned: the model's text, or the fixed reply for a credential error
GatewayReturned == gatewayOutcome.kind = "text" \/ KeyError(gatewayOutcome)

\* C19 as stated: the sources of a report-intent result are those of the raw
\* message, whatever the gateway does: a reply text, a mapped error string or a
\* raised error.
C19_SourcesFromMessage ==
  ReportAnswered => result.sources = SourcesOf[args.userMessage]

\* C19, amended: the sources of a report-intent result are those of the raw
\* message whenever the gateway returns (any reply text or the mapped error
\* string), and are empty when the gateway raises.
C19_SourcesUnlessRaised ==
  ReportAnswered =>
    result.sources = (IF GatewayReturned THEN SourcesOf[args.userMessage] ELSE <<>>)

\* a report answer carrying the mapped credential reply and the message's sources
C19_Witness ==
  /\ ReportAnswered /\ KeyError(gatewayOutcome)
  /\ result.reply = InvalidKeyReply
  /\ result.sources = <<"performance", "seo", "content">>

\* ---- The classifier with and without a report ----
\* C23: loading a report never turns a report question into another one: a message
\* classified REPORT_INTENT without a report has confidence 0.95 and is classified
\* REPORT_INTENT with confidence 0.95 with a report too; REPORT_INTENT with
\* confidence 0.7 is returned only with a report.
C23_ReportKept ==
  (unit.fn = "detectIntent" /\ unit.out.intent = "REPORT_INTENT") =>
     /\ ~unit.hasReportId =>
          /\ unit.out.confidence = 95
          /\ detectIntentOf(unit.message, TRUE) = [intent |-> "REPORT_INTENT", confidence |-> 95]
     /\ unit.out.confidence = 70 => unit.hasReportId

\* a report question without ownership, classified without a report: its metric
\* acronym counts 1 there and 3 with a report
C23_Witness ==
  /\ unit.fn = "detectIntent" /\ ~unit.hasReportId /\ ~hasOwnership(UnitText)
  /\ anyWord(UnitText, MetricAcronyms)
  /\ unit.out.intent = "REPORT_INTENT" /\ unit.out.confidence = 95
  /\ reportScore(UnitText, TRUE) > reportScore(UnitText, FALSE)
  /\ detectIntentOf(unit.message, TRUE).intent = "REPORT_INTENT"

\* ---- The widget's requests ----
\* the message list alternates user and assistant messages, a user message first
Alternates(list) ==
  \A i \in 1..Len(list) : list[i].role = (IF i % 2 = 1 THEN "user" ELSE "assistant")

\* C22: the widget never has two requests in flight at once: whatever the send
\* actions (send button, Enter key, suggestion buttons), two sends before the next
\* render included, a second request is not dispatched until the first has settled,
\* and the message list alternates user and assistant messages.
C22_OneRequestInFlight ==
  client = "chatbot" => (Len(chatbot.flights) <= 1 /\ Alternates(messages))

\* ---- Calls of chat in flight at once ----
\* the locals of call c, executing or not
FrameOf(c) == IF c = server.running THEN Frame ELSE server.frames[c]

\* what chat returns or raises for arguments a when it is the only call, the
\* store answering fetched and the vendor answering answered
chatAlone(a, fetched, answered) ==
  LET tag == IntentOf[a.userMessage, a.reportId # NoReportId]
  IN  IF keyMissing(hasKey) THEN noKeyResult
      ELSE IF handlerState(tag) = "REPORT_HANDLING"
        THEN IF missingReportId(a.reportId) THEN noReportResult(tag)
             ELSE IF buildReportContext(fetched).kind # "return"
               THEN chatFinish(buildReportContext(fetched), tag, <<>>)
               ELSE chatFinish(callGemini(answered), tag, SourcesOf[a.userMessage])
        ELSE chatFinish(callGemini(answered), tag, <<>>)

\* the user prompt a call builds from its own message and the store's answer to it
promptAlone(f) ==
  IF f.state = "REPORT_HANDLING"
    THEN reportPrompt(buildReportContext(f.fetchOutcome).fullContext, f.args.userMessage)
  ELSE IF f.state = "CONCEPT_HANDLING"
    THEN conceptPrompt(IF f.args.reportId = NoReportId THEN <<>>
                       ELSE buildReportSummary(f.fetchOutcome), f.args.userMessage)
  ELSE generalPrompt(f.args.userMessage)

\* C21: calls of chat do not affect one another: interleaved at their awaits in
\* any order, each call returns what it returns alone with the same answers of
\* the store and the vendor, and it sees its own message, history, intent and
\* sources only.
C21_CallsIndependent ==
  client = "server" =>
    \A c \in CallIds :
      LET f == FrameOf(c)
      IN  /\ f.state = "DONE" => f.result = chatAlone(f.args, f.fetchOutcome, f.gatewayOutcome)
          /\ f.intent \in {"none", IntentOf[f.args.userMessage, f.args.reportId # NoReportId]}
          /\ f.modelPending =>
                f.modelCall.contents = geminiContents(promptAlone(f), f.args.chatHistory)

\* two calls are awaiting at once: the first, a report question, has resumed from
\* the store and awaits the vendor; the second, a concept question with another
\* history, has detected its intent since and awaits the store
C21_Witness ==
  /\ client = "server" /\ server.running = "second"
  /\ FrameOf("first").modelPending /\ FrameOf("first").fetchCalls = 1
  /\ FrameOf("first").intent = "REPORT_INTENT"
  /\ FrameOf("second").fetchPending
  /\ FrameOf("second").intent = "WEBSITE_CONCEPT_INTENT"
  /\ FrameOf("first").args.userMessage # FrameOf("second").args.userMessage
  /\ FrameOf("first").args.chatHistory # FrameOf("second").args.chatHistory

====
